---------------------------- MODULE Spec2Model ----------------------------
(***************************************************************************)
(* A model of the RIES web front end's text core: the FORTH (postfix)      *)
(* parser and LaTeX renderer (forthParser.js, two revisions of which are   *)
(* in the repository) and the solver-output line parser (riesParser.js).   *)
(*                                                                         *)
(* JavaScript strings are modelled as sequences of one-character strings,  *)
(* so that every regular expression, split, trim and template of the code  *)
(* is computed on characters; a literal is followed by its text.           *)
(***************************************************************************)
EXTENDS Naturals, Integers, Sequences, FiniteSets, TLC

----------------------------------------------------------------------------
(* Characters and the regular-expression classes the code uses.            *)

Digits == {"0", "1", "2", "3", "4", "5", "6", "7", "8", "9"}

LowerCase == {"a", "b", "c", "d", "e", "f", "g", "h", "i", "j", "k", "l", "m",
              "n", "o", "p", "q", "r", "s", "t", "u", "v", "w", "x", "y", "z"}

UpperCase == {"A", "B", "C", "D", "E", "F", "G", "H", "I", "J", "K", "L", "M",
              "N", "O", "P", "Q", "R", "S", "T", "U", "V", "W", "X", "Y", "Z"}

\* \w of a JavaScript regular expression
WordChars == Digits \cup LowerCase \cup UpperCase \cup {"_"}

\* \s of a JavaScript regular expression (the members that occur in the model)
WhiteSpace == {" ", "\t", "\r", "\n"}

\* The element of a one-element set.  Only({e(v) : v \in {d}}) is e with v
\* standing for d, and has TLC evaluate d once, however often e uses v.
Only(S) == CHOOSE v \in S : TRUE

Least(S) == Only({(CHOOSE m \in T : \A n \in T : m <= n) : T \in {S}})

Greatest(S) == Only({(CHOOSE m \in T : \A n \in T : m >= n) : T \in {S}})

\* The characters of s from index `from` to index `to`
SubStr(s, from, to) ==
  Only({[k \in 1..(b - a + 1) |-> v[a + k - 1]] : v \in {s}, a \in {from}, b \in {to}})

AllIn(s, from, to, class) == \A k \in from..to : s[k] \in class

\* s[from..to] matches \d+
IsDigitRun(s, from, to) == from <= to /\ AllIn(s, from, to, Digits)

StartsWithAt(s, p, lit) ==
  /\ p + Len(lit) - 1 <= Len(s)
  /\ \A k \in 1..Len(lit) : s[p + k - 1] = lit[k]

\* String.prototype.includes
Includes(s, lit) == \E p \in 1..(Len(s) + 1) : StartsWithAt(s, p, lit)

\* Number -> decimal string, as a template literal prints a small integer
RECURSIVE NatToStr(_)
NatToStr(n) ==
  LET d == <<"0", "1", "2", "3", "4", "5", "6", "7", "8", "9">>
  IN IF n < 10 THEN <<d[n + 1]>> ELSE NatToStr(n \div 10) \o <<d[(n % 10) + 1]>>

----------------------------------------------------------------------------
(* JavaScript values.  A value is a string (a character sequence) or one   *)
(* of the functions every object inherits from Object.prototype, modelled  *)
(* as a one-element sequence holding a tag that is not a character.        *)

\* Property names that `name in obj` finds on every object literal.
ObjectPrototypeNames == {<<"t", "o", "S", "t", "r", "i", "n", "g">> (* "toString" *), <<"c", "o", "n", "s", "t", "r", "u", "c", "t", "o", "r">> (* "constructor" *)}

\* obj[name] for an inherited name: a native function
NativeFunction(name) ==
  IF name = <<"t", "o", "S", "t", "r", "i", "n", "g">> (* "toString" *) THEN <<"[Function: toString]">>
  ELSE <<"[Function: Object]">>

IsNative(v) == Len(v) = 1 /\ v[1] \in {"[Function: toString]", "[Function: Object]"}

\* String(v), as a template literal `${v}` converts a value
ToStr(v) ==
  IF v = <<"[Function: toString]">> THEN <<"f", "u", "n", "c", "t", "i", "o", "n", " ", "t", "o", "S", "t", "r", "i", "n", "g", "(", ")", " ", "{", " ", "[", "n", "a", "t", "i", "v", "e", " ", "c", "o", "d", "e", "]", " ", "}">> (* "function toString() { [native code] }" *)
  ELSE IF v = <<"[Function: Object]">> THEN <<"f", "u", "n", "c", "t", "i", "o", "n", " ", "O", "b", "j", "e", "c", "t", "(", ")", " ", "{", " ", "[", "n", "a", "t", "i", "v", "e", " ", "c", "o", "d", "e", "]", " ", "}">> (* "function Object() { [native code] }" *)
  ELSE v

\* v.length: the character count of a string, the arity of a function
LengthOf(v) ==
  IF v = <<"[Function: toString]">> THEN 0
  ELSE IF v = <<"[Function: Object]">> THEN 1
  ELSE Len(v)

\* The outcome of a call: a returned value or a thrown Error.
Return(v) == [thrown |-> FALSE, kind |-> "none", value |-> v]

Throw(kind, message) == [thrown |-> TRUE, kind |-> kind, value |-> message]

----------------------------------------------------------------------------
(* forthParser.js: the operator and constant tables.                       *)

\* /^\d+$/.test(v)
IsSimpleInteger(v) == LET s == ToStr(v) IN IsDigitRun(s, 1, Len(s))

\* /^e\^{\d+}$/.test(v)
IsExpOfInteger(v) ==
  LET s == ToStr(v)
  IN /\ Len(s) >= 5
     /\ StartsWithAt(s, 1, <<"e", "^", "{">> (* "e^{" *))
     /\ s[Len(s)] = "}"
     /\ IsDigitRun(s, 4, Len(s) - 1)

\* /^-?\d+$/.test(v)
IsSignedInteger(v) ==
  LET s == ToStr(v)
      from == IF Len(s) > 0 /\ s[1] = "-" THEN 2 ELSE 1
  IN IsDigitRun(s, from, Len(s))

\* arg.match(/^(\d+)\s*\/\s*(\d+)$/): the start of group 2, or 0 for no match
SimpleFractionDenominatorAt(s) ==
  LET n == Len(s)
      hits == {j \in 1..n :
                 \E i \in 2..n : \E k \in i..(j - 1) :
                     /\ IsDigitRun(s, 1, i - 1)
                     /\ AllIn(s, i, k - 1, WhiteSpace)
                     /\ s[k] = "/"
                     /\ AllIn(s, k + 1, j - 1, WhiteSpace)
                     /\ IsDigitRun(s, j, n)}
  IN IF hits = {} THEN 0 ELSE CHOOSE j \in hits : \A h \in hits : j <= h

createTrigPiFunction(trigName, arg) ==
  IF IsNative(arg)
  THEN Throw("TypeError", <<"a", "r", "g", ".", "m", "a", "t", "c", "h", " ", "i", "s", " ", "n", "o", "t", " ", "a", " ", "f", "u", "n", "c", "t", "i", "o", "n">> (* "arg.match is not a function" *))
  ELSE LET j == SimpleFractionDenominatorAt(arg)
       IN IF j > 0
          THEN Return(<<"\\">> \o trigName \o <<"\\", "b", "i", "g", "l", "(", "\\", "f", "r", "a", "c", "{", "\\", "p", "i", "}", "{">> (* "\\bigl(\\frac{\\pi}{" *)
                      \o SubStr(arg, j, Len(arg)) \o <<"}", "\\", "b", "i", "g", "r", ")">> (* "}\\bigr)" *))
          ELSE Return(<<"\\">> \o trigName \o <<"\\", "b", "i", "g", "l", "(", "\\", "p", "i", " ">> (* "\\bigl(\\pi " *)
                      \o arg \o <<"\\", "b", "i", "g", "r", ")">> (* "\\bigr)" *))

UnaryNames ==
  {<<"q">>, <<"l">>, <<"l", "n">> (* "ln" *), <<"s">>, <<"r">>, <<"r", "e", "c", "i", "p">> (* "recip" *),
   <<"l", "o", "g", "2">> (* "log2" *), <<"s", "q", "r", "t">> (* "sqrt" *), <<"e", "x", "p">> (* "exp" *), <<"n", "e", "g">> (* "neg" *),
   <<"s", "i", "n", "p", "i">> (* "sinpi" *), <<"c", "o", "s", "p", "i">> (* "cospi" *), <<"t", "a", "n", "p", "i">> (* "tanpi" *)}

\* UNARY_OPS[name](arg)
UNARY_OPS(name, arg) ==
  LET a == ToStr(arg)
  IN CASE name \in {<<"q">>, <<"s", "q", "r", "t">> (* "sqrt" *)} -> Return(<<"\\", "s", "q", "r", "t", "{">> (* "\\sqrt{" *) \o a \o <<"}">>)
       [] name \in {<<"l">>, <<"l", "n">> (* "ln" *)} -> Return(<<"\\", "l", "n", "(">> (* "\\ln(" *) \o a \o <<")">>)
       [] name = <<"s">> -> Return(<<"\\", "s", "i", "n", "(">> (* "\\sin(" *) \o a \o <<")">>)
       [] name \in {<<"r">>, <<"r", "e", "c", "i", "p">> (* "recip" *)} -> Return(<<"\\", "f", "r", "a", "c", "{", "1", "}", "{">> (* "\\frac{1}{" *) \o a \o <<"}">>)
       [] name = <<"l", "o", "g", "2">> (* "log2" *) -> Return(<<"\\", "l", "o", "g", "_", "{", "2", "}", "(">> (* "\\log_{2}(" *) \o a \o <<")">>)
       [] name = <<"e", "x", "p">> (* "exp" *) -> Return(<<"e", "^", "{">> (* "e^{" *) \o a \o <<"}">>)
       [] name = <<"n", "e", "g">> (* "neg" *) -> Return(<<"-">> \o a)
       [] name = <<"s", "i", "n", "p", "i">> (* "sinpi" *) -> createTrigPiFunction(<<"s", "i", "n">> (* "sin" *), arg)
       [] name = <<"c", "o", "s", "p", "i">> (* "cospi" *) -> createTrigPiFunction(<<"c", "o", "s">> (* "cos" *), arg)
       [] name = <<"t", "a", "n", "p", "i">> (* "tanpi" *) -> createTrigPiFunction(<<"t", "a", "n">> (* "tan" *), arg)

BinaryNames ==
  {<<"+">>, <<"-">>, <<"*">>, <<"/">>, <<"^">>, <<"*", "*">> (* "**" *),
   <<"a", "t", "a", "n", "2">> (* "atan2" *), <<"l", "o", "g", "N">> (* "logN" *), <<"r", "o", "o", "t">> (* "root" *)}

\* BINARY_OPS[name].prec
Prec(name) ==
  CASE name \in {<<"+">>, <<"-">>, <<"a", "t", "a", "n", "2">> (* "atan2" *)} -> 1
    [] name \in {<<"*">>, <<"/">>} -> 2
    [] name \in {<<"^">>, <<"*", "*">> (* "**" *), <<"l", "o", "g", "N">> (* "logN" *), <<"r", "o", "o", "t">> (* "root" *)} -> 3

\* atan2 with its operands commuted (mutant of Atan2Call)
Atan2Call_Commuted(a, b) ==
  <<"\\", "o", "p", "e", "r", "a", "t", "o", "r", "n", "a", "m", "e", "{", "a", "t", "a", "n", "_", "2", "}", "(">> (* "\\operatorname{atan_2}(" *) \o b \o <<",">> \o a \o <<")">>

\* BINARY_OPS.atan2.op(a, b)
Atan2Call(a, b) ==
  <<"\\", "o", "p", "e", "r", "a", "t", "o", "r", "n", "a", "m", "e", "{", "a", "t", "a", "n", "_", "2", "}", "(">> (* "\\operatorname{atan_2}(" *) \o a \o <<",">> \o b \o <<")">>

\* BINARY_OPS[name].op(left, right)
BINARY_OPS(name, left, right) ==
  LET a == ToStr(left)
      b == ToStr(right)
  IN CASE name = <<"+">> -> Return(a \o <<" ", "+", " ">> (* " + " *) \o b)
       [] name = <<"-">> -> Return(a \o <<" ", "-", " ">> (* " - " *) \o b)
       [] name = <<"*">> ->
            IF IsSimpleInteger(right) \/ IsExpOfInteger(right)
            THEN Return(b \o <<" ">> \o a)
            ELSE Return(a \o <<" ">> \o b)
       [] name = <<"/">> -> Return(<<"\\", "f", "r", "a", "c", "{">> (* "\\frac{" *) \o a \o <<"}", "{">> (* "}{" *) \o b \o <<"}">>)
       [] name \in {<<"^">>, <<"*", "*">> (* "**" *)} -> Return(a \o <<"^", "{">> (* "^{" *) \o b \o <<"}">>)
       [] name = <<"a", "t", "a", "n", "2">> (* "atan2" *) -> Return(Atan2Call(a, b))
       [] name = <<"l", "o", "g", "N">> (* "logN" *) ->
            Return(<<"\\", "l", "o", "g", "_", "{">> (* "\\log_{" *) \o b \o <<"}", "(">> (* "}(" *) \o a \o <<")">>)
       [] name = <<"r", "o", "o", "t">> (* "root" *) ->
            IF IsNative(left)
            THEN Throw("TypeError", <<"a", ".", "i", "n", "c", "l", "u", "d", "e", "s", " ", "i", "s", " ", "n", "o", "t", " ", "a", " ", "f", "u", "n", "c", "t", "i", "o", "n">> (* "a.includes is not a function" *))
            ELSE IF Includes(a, <<"^">>)
            THEN Return(<<"(">> \o a \o <<")", "^", "{", "\\", "f", "r", "a", "c", "{", "1", "}", "{">> (* ")^{\\frac{1}{" *) \o b \o <<"}", "}">> (* "}}" *))
            ELSE Return(a \o <<"^", "{", "\\", "f", "r", "a", "c", "{", "1", "}", "{">> (* "^{\\frac{1}{" *) \o b \o <<"}", "}">> (* "}}" *))

ConstantNames ==
  {<<"p", "i">> (* "pi" *), <<"p">>, <<"p", "h", "i">> (* "phi" *), <<"e">>,
   <<"a">>, <<"b">>, <<"x">>, <<"y">>}

\* CONSTANTS[name], for a name that `name in CONSTANTS` accepts
CONSTANTS_TABLE(name) ==
  CASE name \in {<<"p", "i">> (* "pi" *), <<"p">>} -> <<"\\", "p", "i">> (* "\\pi" *)
    [] name = <<"p", "h", "i">> (* "phi" *) -> <<"\\", "p", "h", "i">> (* "\\phi" *)
    [] name \in {<<"e">>, <<"a">>, <<"b">>, <<"x">>, <<"y">>} -> name
    [] OTHER -> NativeFunction(name)

\* `name in table` for an object literal with the given own keys
In(name, ownKeys) == name \in ownKeys \/ name \in ObjectPrototypeNames

\* A Node that keeps its operands in the order popped: right, then left
Node_AsPopped(type, value, children, requiresBrackets) ==
  [type |-> type, value |-> value,
   children |-> [k \in 1..Len(children) |-> children[Len(children) + 1 - k]],
   requiresBracketsForExponentiation |-> requiresBrackets]

\* new Node(type, value, children, requiresBracketsForExponentiation)
Node(type, value, children, requiresBrackets) ==
  [type |-> type, value |-> value, children |-> children,
   requiresBracketsForExponentiation |-> requiresBrackets]

----------------------------------------------------------------------------
(* parsePostfix: the body of the token loop, once per revision of the      *)
(* file.  A step takes the operand stack and the next token and gives the  *)
(* new stack, or the Error the loop throws at that token.                  *)

\* Where the digits of an optionally signed literal start: the regexes' -?
AfterSign(t) == IF Len(t) > 0 /\ t[1] = "-" THEN 2 ELSE 1

\* /^-?\d+(\.\d+)?$/.test(token) || /^-?\d+\/\d+$/.test(token)
IsNumericLiteral(t) ==
  LET from == AfterSign(t)
      n == Len(t)
  IN \/ IsDigitRun(t, from, n)
     \/ \E p \in (from + 1)..(n - 1) :
          t[p] \in {".", "/"} /\ IsDigitRun(t, from, p - 1) /\ IsDigitRun(t, p + 1, n)

\* /^-?(?:\d+(?:\.\d*)?|\.\d+)$/
DECIMAL_RE(t) ==
  LET from == AfterSign(t)
      n == Len(t)
  IN \/ IsDigitRun(t, from, n)
     \/ \E p \in (from + 1)..n :
          t[p] = "." /\ IsDigitRun(t, from, p - 1) /\ AllIn(t, p + 1, n, Digits)
     \/ from < n /\ t[from] = "." /\ IsDigitRun(t, from + 1, n)

\* /^-?\d+\/\d+$/
FRACTION_RE(t) ==
  LET from == AfterSign(t)
      n == Len(t)
  IN \E p \in (from + 1)..(n - 1) :
       t[p] = "/" /\ IsDigitRun(t, from, p - 1) /\ IsDigitRun(t, p + 1, n)

\* /^[a-z]$/.test(token)
IsSingleLetter(t) == Len(t) = 1 /\ t[1] \in LowerCase

Push(stack, node) == [thrown |-> FALSE, kind |-> "none", value |-> <<>>,
                      stack |-> Append(stack, node)]

ThrowAt(stack, kind, message) == [thrown |-> TRUE, kind |-> kind, value |-> message,
                                  stack |-> stack]

\* src/src/utils/forthParser.js, the body of the for loop
parsePostfixStep(stack, token) ==
  LET n == Len(stack)
  IN IF IsNumericLiteral(token) THEN Push(stack, Node("num", token, <<>>, FALSE))
     ELSE IF IsSingleLetter(token) THEN Push(stack, Node("var", token, <<>>, FALSE))
     ELSE IF In(token, ConstantNames)
     THEN Push(stack, Node("const", CONSTANTS_TABLE(token), <<>>, FALSE))
     ELSE IF In(token, UnaryNames)
     THEN IF n < 1
          THEN ThrowAt(stack, "InsufficientOperands",
                       <<"I", "n", "s", "u", "f", "f", "i", "c", "i", "e", "n", "t", " ", "o", "p", "e", "r", "a", "n", "d", "s", " ", "f", "o", "r", " ", "u", "n", "a", "r", "y", " ", "o", "p", " ">> (* "Insufficient operands for unary op " *) \o token)
          ELSE Push(SubSeq(stack, 1, n - 1),
                    Node("func", token, <<stack[n]>>, token = <<"e", "x", "p">> (* "exp" *)))
     ELSE IF In(token, BinaryNames)
     THEN IF n < 2
          THEN ThrowAt(stack, "InsufficientOperands",
                       <<"I", "n", "s", "u", "f", "f", "i", "c", "i", "e", "n", "t", " ", "o", "p", "e", "r", "a", "n", "d", "s", " ", "f", "o", "r", " ", "b", "i", "n", "a", "r", "y", " ", "o", "p", " ">> (* "Insufficient operands for binary op " *) \o token)
          ELSE Push(SubSeq(stack, 1, n - 2),
                    Node("op", token, <<stack[n - 1], stack[n]>>,
                         token \in {<<"+">>, <<"-">>, <<"/">>, <<"r", "o", "o", "t">> (* "root" *),
                                    <<"^">>, <<"*", "*">> (* "**" *)}))
     ELSE ThrowAt(stack, "UnknownToken", <<"U", "n", "k", "n", "o", "w", "n", " ", "t", "o", "k", "e", "n", ":", " ">> (* "Unknown token: " *) \o token)

\* src/unnamed/part_003, the body of the for loop
parsePostfixStep003(stack, token) ==
  LET n == Len(stack)
  IN IF DECIMAL_RE(token) \/ FRACTION_RE(token)
     THEN Push(stack, Node("num", token, <<>>, FALSE))
     ELSE IF IsSingleLetter(token) THEN Push(stack, Node("var", token, <<>>, FALSE))
     ELSE IF In(token, ConstantNames)
     THEN Push(stack, Node("const", CONSTANTS_TABLE(token), <<>>, FALSE))
     ELSE IF In(token, UnaryNames)
     THEN IF n < 1
          THEN ThrowAt(stack, "InsufficientOperands",
                       <<"I", "n", "s", "u", "f", "f", "i", "c", "i", "e", "n", "t", " ", "o", "p", "e", "r", "a", "n", "d", "s", " ", "f", "o", "r", " ", "u", "n", "a", "r", "y", " ", "o", "p", " ">> (* "Insufficient operands for unary op " *) \o token)
          ELSE Push(SubSeq(stack, 1, n - 1),
                    Node("func", token, <<stack[n]>>,
                         token = <<"e", "x", "p">> (* "exp" *) \/ token = <<"n", "e", "g">> (* "neg" *)))
     ELSE IF In(token, BinaryNames)
     THEN IF n < 2
          THEN ThrowAt(stack, "InsufficientOperands",
                       <<"I", "n", "s", "u", "f", "f", "i", "c", "i", "e", "n", "t", " ", "o", "p", "e", "r", "a", "n", "d", "s", " ", "f", "o", "r", " ", "b", "i", "n", "a", "r", "y", " ", "o", "p", " ">> (* "Insufficient operands for binary op " *) \o token)
          ELSE Push(SubSeq(stack, 1, n - 2),
                    Node("op", token, <<stack[n - 1], stack[n]>>,
                         token \in {<<"+">>, <<"-">>, <<"/">>, <<"r", "o", "o", "t">> (* "root" *),
                                    <<"^">>, <<"*", "*">> (* "**" *), <<"*">>}))
     ELSE ThrowAt(stack, "UnknownToken", <<"U", "n", "k", "n", "o", "w", "n", " ", "t", "o", "k", "e", "n", ":", " ">> (* "Unknown token: " *) \o token)

\* A stack check that only rejects the empty stack (mutant of parsePostfixEnd).
parsePostfixEnd_NonEmpty(stack) ==
  IF Len(stack) < 1
  THEN Throw("InvalidExpression",
             <<"I", "n", "v", "a", "l", "i", "d", " ", "p", "o", "s", "t", "f", "i", "x", " ", "e", "x", "p", "r", "e", "s", "s", "i", "o", "n", ";", " ", "s", "t", "a", "c", "k", "=">> (* "Invalid postfix expression; stack=" *) \o NatToStr(Len(stack)))
  ELSE Return(stack[1])

\* The check after the loop: exactly one node is left, and it is returned.
parsePostfixEnd(stack) ==
  IF Len(stack) # 1
  THEN Throw("InvalidExpression",
             <<"I", "n", "v", "a", "l", "i", "d", " ", "p", "o", "s", "t", "f", "i", "x", " ", "e", "x", "p", "r", "e", "s", "s", "i", "o", "n", ";", " ", "s", "t", "a", "c", "k", "=">> (* "Invalid postfix expression; stack=" *) \o NatToStr(Len(stack)))
  ELSE Return(stack[1])

----------------------------------------------------------------------------
(* toLatex: the renderer, once per revision of the file.  The result is a  *)
(* Return(value) or a Throw; an Error thrown by a recursive call or by an  *)
(* operator's formatting function propagates to the caller.                *)

IsAdditive(node) == node.type = "op" /\ node.value \in {<<"+">>, <<"-">>}

Parens(v) == <<"(">> \o ToStr(v) \o <<")">>

\* The exponent of a power whose exponent node is a division
FractionExponent(numerator, denominator) ==
  IF \/ numerator = <<"1">>
     \/ (LengthOf(numerator) <= 2 /\ LengthOf(denominator) <= 2)
     \/ (IsSignedInteger(numerator) /\ IsSignedInteger(denominator))
  THEN ToStr(numerator) \o <<"/">> \o ToStr(denominator)
  ELSE <<"\\", "f", "r", "a", "c", "{">> (* "\\frac{" *) \o ToStr(numerator) \o <<"}", "{">> (* "}{" *) \o ToStr(denominator) \o <<"}">>

\* baseRequiresParentheses ? `(${base})^{${exponent}}` : `${base}^{${exponent}}`
Power(base, exponent, baseRequiresParentheses) ==
  IF baseRequiresParentheses
  THEN <<"(">> \o ToStr(base) \o <<")", "^", "{">> (* ")^{" *) \o exponent \o <<"}">>
  ELSE ToStr(base) \o <<"^", "{">> (* "^{" *) \o exponent \o <<"}">>

\* src/src/utils/forthParser.js
RECURSIVE toLatex(_, _, _)
toLatex(node, parentPrec, inFunc) ==
  IF node.type \in {"num", "var", "const"} THEN Return(node.value)
  ELSE IF node.type = "func"
  THEN IF node.value \notin UnaryNames
       THEN Throw("UnknownOperator", <<"U", "n", "k", "n", "o", "w", "n", " ", "u", "n", "a", "r", "y", " ", "o", "p", ":", " ">> (* "Unknown unary op: " *) \o node.value)
       ELSE LET arg == toLatex(node.children[1], 0, TRUE)
            IN IF arg.thrown THEN arg
               ELSE IF node.value = <<"n", "e", "g">> (* "neg" *) /\ IsAdditive(node.children[1])
               THEN Return(<<"-">> \o Parens(arg.value))
               ELSE UNARY_OPS(node.value, arg.value)
  ELSE IF node.type = "op"
  THEN IF node.value \notin BinaryNames
       THEN Throw("UnknownOperator", <<"U", "n", "k", "n", "o", "w", "n", " ", "b", "i", "n", "a", "r", "y", " ", "o", "p", ":", " ">> (* "Unknown binary op: " *) \o node.value)
       ELSE
       LET prec == Prec(node.value)
           c0 == node.children[1]
           c1 == node.children[2]
       IN IF node.value = <<"/">>
          THEN LET numerator == toLatex(c0, 0, TRUE)
                   denominator == toLatex(c1, 0, TRUE)
               IN IF numerator.thrown THEN numerator
                  ELSE IF denominator.thrown THEN denominator
                  ELSE BINARY_OPS(<<"/">>, numerator.value, denominator.value)
          ELSE IF node.value \in {<<"^">>, <<"*", "*">> (* "**" *)}
          THEN LET base == toLatex(c0, prec, inFunc)
                   needs == c0.requiresBracketsForExponentiation
               IN IF base.thrown THEN base
                  ELSE IF c1.type = "op" /\ c1.value = <<"/">>
                  THEN LET numerator == toLatex(c1.children[1], 0, TRUE)
                           denominator == toLatex(c1.children[2], 0, TRUE)
                       IN IF numerator.thrown THEN numerator
                          ELSE IF denominator.thrown THEN denominator
                          ELSE Return(Power(base.value,
                                            FractionExponent(numerator.value,
                                                             denominator.value),
                                            needs))
                  ELSE LET exponent == toLatex(c1, 0, TRUE)
                       IN IF exponent.thrown THEN exponent
                          ELSE Return(Power(base.value, ToStr(exponent.value), needs))
          ELSE LET left == toLatex(c0, prec, inFunc)
                   right == toLatex(c1, prec, inFunc)
               IN IF left.thrown THEN left
                  ELSE IF right.thrown THEN right
                  ELSE LET expr == BINARY_OPS(node.value, left.value, right.value)
                       IN IF expr.thrown THEN expr
                          ELSE IF node.requiresBracketsForExponentiation /\ parentPrec = 3
                          THEN expr
                          ELSE IF ~inFunc /\ prec < parentPrec
                          THEN Return(Parens(expr.value))
                          ELSE expr
  ELSE Throw("UnknownNodeType", <<"U", "n", "k", "n", "o", "w", "n", " ", "n", "o", "d", "e", " ", "t", "y", "p", "e", ":", " ">> (* "Unknown node type: " *) \o <<node.type>>)

\* rightPrec = Infinity: larger than every precedence
Infinity == 1000

\* src/unnamed/part_003
RECURSIVE toLatex003(_, _, _)
toLatex003(node, parentPrec, inFunc) ==
  IF node.type \in {"num", "var", "const"} THEN Return(node.value)
  ELSE IF node.type = "func"
  THEN IF node.value \notin UnaryNames
       THEN Throw("UnknownOperator", <<"U", "n", "k", "n", "o", "w", "n", " ", "u", "n", "a", "r", "y", " ", "o", "p", ":", " ">> (* "Unknown unary op: " *) \o node.value)
       ELSE LET arg == toLatex003(node.children[1], 0, TRUE)
            IN IF arg.thrown THEN arg
               ELSE IF node.value = <<"n", "e", "g">> (* "neg" *) /\ IsAdditive(node.children[1])
               THEN Return(<<"-">> \o Parens(arg.value))
               ELSE UNARY_OPS(node.value, arg.value)
  ELSE IF node.type = "op"
  THEN IF node.value \notin BinaryNames
       THEN Throw("UnknownOperator", <<"U", "n", "k", "n", "o", "w", "n", " ", "b", "i", "n", "a", "r", "y", " ", "o", "p", ":", " ">> (* "Unknown binary op: " *) \o node.value)
       ELSE
       LET prec == Prec(node.value)
           c0 == node.children[1]
           c1 == node.children[2]
       IN IF node.value = <<"/">>
          THEN LET numerator == toLatex003(c0, 0, TRUE)
                   denominator == toLatex003(c1, 0, TRUE)
               IN IF numerator.thrown THEN numerator
                  ELSE IF denominator.thrown THEN denominator
                  ELSE BINARY_OPS(<<"/">>, numerator.value, denominator.value)
          ELSE IF node.value \in {<<"^">>, <<"*", "*">> (* "**" *)}
          THEN LET base == toLatex003(c0, prec, inFunc)
                   needs == c0.requiresBracketsForExponentiation
               IN IF base.thrown THEN base
                  ELSE IF c1.type = "op" /\ c1.value = <<"/">>
                  THEN LET numerator == toLatex003(c1.children[1], 0, TRUE)
                           denominator == toLatex003(c1.children[2], 0, TRUE)
                       IN IF numerator.thrown THEN numerator
                          ELSE IF denominator.thrown THEN denominator
                          ELSE Return(Power(base.value,
                                            FractionExponent(numerator.value,
                                                             denominator.value),
                                            needs))
                  ELSE LET exponent == toLatex003(c1, 0, TRUE)
                       IN IF exponent.thrown THEN exponent
                          ELSE Return(Power(base.value, ToStr(exponent.value), needs))
          ELSE IF node.value = <<"*">>
          THEN LET left == toLatex003(c0, 0, inFunc)
                   right == toLatex003(c1, 0, inFunc)
               IN IF left.thrown THEN left
                  ELSE IF right.thrown THEN right
                  ELSE IF c0.type = "num" /\ c1.type = "num"
                  THEN Return(left.value \o <<" ", "\\", "c", "d", "o", "t", " ">> (* " \\cdot " *) \o right.value)
                  ELSE LET formattedLeft == IF IsAdditive(c0) THEN Parens(left.value)
                                            ELSE ToStr(left.value)
                           formattedRight == IF IsAdditive(c1) THEN Parens(right.value)
                                             ELSE ToStr(right.value)
                       IN IF IsSimpleInteger(right.value) \/ IsExpOfInteger(right.value)
                          THEN Return(ToStr(right.value) \o <<" ">> \o formattedLeft)
                          ELSE Return(formattedLeft \o <<" ">> \o formattedRight)
          ELSE IF node.requiresBracketsForExponentiation /\ parentPrec = 3
          THEN LET left == toLatex003(c0, prec, inFunc)
                   right == toLatex003(c1, 0, TRUE)
               IN IF left.thrown THEN left
                  ELSE IF right.thrown THEN right
                  ELSE BINARY_OPS(node.value, left.value, right.value)
          ELSE LET left == toLatex003(c0, prec, inFunc)
                   rightPrec == IF node.value = <<"-">> /\ IsAdditive(c1)
                                THEN Infinity ELSE prec
                   right == toLatex003(c1, rightPrec, inFunc)
               IN IF left.thrown THEN left
                  ELSE IF right.thrown THEN right
                  ELSE LET expr == BINARY_OPS(node.value, left.value, right.value)
                       IN IF expr.thrown THEN expr
                          ELSE IF /\ ~inFunc
                                  /\ prec < parentPrec
                                  /\ node.requiresBracketsForExponentiation
                          THEN Return(Parens(expr.value))
                          ELSE expr
  ELSE Throw("UnknownNodeType", <<"U", "n", "k", "n", "o", "w", "n", " ", "n", "o", "d", "e", " ", "t", "y", "p", "e", ":", " ">> (* "Unknown node type: " *) \o <<node.type>>)

----------------------------------------------------------------------------
(* convertForthToLatex: preprocessing, tokenizing, parsing and rendering.  *)

\* the input with no dup* replaced (mutant of ReplaceDup)
ReplaceDup_Kept(s, p) == SubStr(s, p, Len(s))

\* input.replace(/\bdup\*/g, '2 **'), scanning from position p
RECURSIVE ReplaceDup(_, _)
ReplaceDup(s, p) ==
  IF p > Len(s) THEN <<>>
  ELSE IF StartsWithAt(s, p, <<"d", "u", "p", "*">> (* "dup*" *)) /\ (p = 1 \/ s[p - 1] \notin WordChars)
  THEN <<"2", " ", "*", "*">> (* "2 **" *) \o ReplaceDup(s, p + 4)
  ELSE <<s[p]>> \o ReplaceDup(s, p + 1)

\* processedInput.split(/\s+/).filter(t => t.length > 0), scanning from p
RECURSIVE Split(_, _)
Split(s, p) ==
  IF p > Len(s) THEN <<>>
  ELSE IF s[p] \in WhiteSpace THEN Split(s, p + 1)
  ELSE Only({<<SubStr(s, p, q)>> \o Split(s, q + 1) :
               q \in {Least({e \in p..Len(s) :
                               e = Len(s) \/ s[e + 1] \in WhiteSpace})}})

\* parsePostfix(tokens) of src/src/utils/forthParser.js, from token i on
RECURSIVE parsePostfix(_, _, _)
parsePostfix(tokens, i, stack) ==
  IF i > Len(tokens) THEN parsePostfixEnd(stack)
  ELSE Only({IF step.thrown THEN Throw(step.kind, step.value)
             ELSE parsePostfix(tokens, i + 1, step.stack) :
               step \in {parsePostfixStep(stack, tokens[i])}})

\* parsePostfix(tokens) of src/unnamed/part_003, from token i on
RECURSIVE parsePostfix003(_, _, _)
parsePostfix003(tokens, i, stack) ==
  IF i > Len(tokens) THEN parsePostfixEnd(stack)
  ELSE Only({IF step.thrown THEN Throw(step.kind, step.value)
             ELSE parsePostfix003(tokens, i + 1, step.stack) :
               step \in {parsePostfixStep003(stack, tokens[i])}})

\* catch (error) { return "\\text{Error: " + error.message + "}" }
CatchAsText(outcome) ==
  IF outcome.thrown
  THEN Return(<<"\\", "t", "e", "x", "t", "{", "E", "r", "r", "o", "r", ":", " ">> (* "\\text{Error: " *) \o outcome.value \o <<"}">>)
  ELSE outcome

\* const tokens = processedInput.split(/\s+/).filter(t => t.length > 0)
Tokenize(text) ==
  Only({Split(processedInput, 1) : processedInput \in {ReplaceDup(text, 1)}})

\* src/src/utils/forthParser.js: the body of the try block
TryConvert(text) ==
  Only({Only({IF tree.thrown THEN tree ELSE toLatex(tree.value, 0, FALSE) :
                tree \in {parsePostfix(tokens, 1, <<>>)}}) :
          tokens \in {Tokenize(text)}})

\* src/src/utils/forthParser.js: every Error is caught and returned as text
convertForthToLatex(text) ==
  Only({CatchAsText(tried) : tried \in {TryConvert(text)}})

\* src/unnamed/part_003: an Error propagates to the caller
convertForthToLatex003(text) ==
  Only({Only({IF tree.thrown THEN tree ELSE toLatex003(tree.value, 0, FALSE) :
                tree \in {parsePostfix003(tokens, 1, <<>>)}}) :
          tokens \in {Tokenize(text)}})

----------------------------------------------------------------------------
(* The state machine of one call of convertForthToLatex.  The for loop of  *)
(* parsePostfix reads one token per step and never looks ahead, so the     *)
(* token array is modelled as read from the caller one token at a time:    *)
(* `tokens` is the prefix consumed so far.                                 *)

VARIABLES
  file,      \* which revision of forthParser.js runs
  family,    \* which family of inputs the call is drawn from
  tokens,    \* the tokens the loop has read
  stack,     \* the operand stack of parsePostfix
  pc,        \* "loop", "returned" (a value came back) or "thrown"
  raised,    \* the Error thrown inside the call, or NoError
  outcome,   \* what convertForthToLatex gave its caller, or Pending
  input,     \* the string convertForthToLatex was called with
  lines,     \* parseRIESOutput: text.split("\n")
  lineNo,    \* parseRIESOutput: the index of the line the for loop is at
  results,   \* parseRIESOutput: the records pushed so far
  origin,    \* for each record of results, the index of the line it came from
  where,     \* parseRIESOutput: "idle", "called", "loop" or "returned"
  strA,      \* highlightDifference: the target value
  strB,      \* highlightDifference: the computed value
  shown,     \* highlightDifference: what it returned, or Pending
  tables,    \* the own keys of UNARY_OPS, BINARY_OPS and CONSTANTS
  calls,     \* the calls made so far: function, argument and result
  entries,   \* window.history: the session history entries, state and URL
  cursor,    \* window.history: the index of the current entry
  inputValue, \* App: the state inputValue, shown in the input field
  event,     \* the browser event handled last
  worker,    \* riesWorkerClient: TRUE when `worker` holds a Worker
  callbacks, \* riesWorkerClient: the Map callbacks, by request id
  msgId,     \* riesWorkerClient: the next request id
  heartbeatWatchdog, \* riesWorkerClient: TRUE when the interval is set
  errorListeners, \* the `error` listeners registered on window
  timeouts,  \* the ids whose retry setTimeout has not fired yet
  promises,  \* for each request id "pending", "resolved" or "rejected"
  posts,     \* for each request id, the messages posted to a worker for it
  failed,    \* the handler run last, if it retries, and the ids it passed
             \* to retryRequest
  inbox,     \* the messages posted to the worker it has not handled yet
  replies,   \* the messages the worker posted, not yet delivered
  riesModuleInstance, \* ries.worker: the cached instance, 0 for null
  creating,  \* ries.worker: the handlers awaiting createRIESModule
  creations  \* ries.worker: for each createRIESModule call, whether forced

pvars == <<file, family, tokens, stack, pc, raised, outcome, input>>

rvars == <<lines, lineNo, results, origin, where>>

hvars == <<strA, strB, shown>>

cvars == <<tables, calls>>

bvars == <<entries, cursor, inputValue, event>>

wvars == <<worker, callbacks, msgId, heartbeatWatchdog, errorListeners, timeouts,
           promises, posts, failed, inbox, replies, riesModuleInstance,
           creating, creations>>

vars == <<pvars, rvars, hvars, cvars, bvars, wvars>>

Files == {"forthParser.js", "part_003"}

NoError == [thrown |-> FALSE, kind |-> "none", value |-> <<>>]

Pending == [thrown |-> FALSE, kind |-> "pending", value |-> <<>>]

\* Bounds: the longest token sequence read, per family of inputs.
MaxWideTokens == 2

MaxAtan2Tokens == 5

MaxSumTokens == 6

MaxPowerTokens == 5

Families == {"wide", "atan2", "sums", "powers"}

\* Every kind of token, for short inputs.
WideVocabulary ==
  ConstantNames \cup UnaryNames \cup BinaryNames
  \cup {<<"1">>, <<"2">>, <<"-", "3">> (* "-3" *), <<"1", "/", "9">> (* "1/9" *), <<"2", ".", "5">> (* "2.5" *), <<"3", ".">> (* "3." *), <<".", "5">> (* ".5" *),
        <<"z">>, <<"f", "o", "o">> (* "foo" *), <<"X">>, <<"s", "i", "n", "e">> (* "sine" *),
        <<"t", "o", "S", "t", "r", "i", "n", "g">> (* "toString" *), <<"c", "o", "n", "s", "t", "r", "u", "c", "t", "o", "r">> (* "constructor" *)}

\* atan2 under every kind of enclosing operator.
Atan2Vocabulary ==
  {<<"a">>, <<"b">>, <<"a", "t", "a", "n", "2">> (* "atan2" *), <<"*">>, <<"^">>, <<"r", "o", "o", "t">> (* "root" *),
   <<"l", "o", "g", "N">> (* "logN" *), <<"l", "n">> (* "ln" *), <<"/">>}

\* Sums and differences under a difference, a product and a function.
SumVocabulary ==
  {<<"a">>, <<"7">>, <<"+">>, <<"-">>, <<"*">>, <<"s", "q", "r", "t">> (* "sqrt" *), <<"e", "x", "p">> (* "exp" *)}

\* Powers and roots of sums, products, fractions, powers and negations.
PowerVocabulary ==
  {<<"a">>, <<"7">>, <<"+">>, <<"*">>, <<"/">>, <<"^">>, <<"r", "o", "o", "t">> (* "root" *),
   <<"n", "e", "g">> (* "neg" *), <<"e", "x", "p">> (* "exp" *)}

Vocabulary(f) ==
  CASE f = "wide" -> WideVocabulary
    [] f = "atan2" -> Atan2Vocabulary
    [] f = "sums" -> SumVocabulary
    [] f = "powers" -> PowerVocabulary

MaxTokens(f) ==
  CASE f = "wide" -> MaxWideTokens
    [] f = "atan2" -> MaxAtan2Tokens
    [] f = "sums" -> MaxSumTokens
    [] f = "powers" -> MaxPowerTokens

Step(f, st, t) ==
  IF f = "forthParser.js" THEN parsePostfixStep(st, t) ELSE parsePostfixStep003(st, t)

RenderIn(f, node, parentPrec, inFunc) ==
  IF f = "forthParser.js" THEN toLatex(node, parentPrec, inFunc)
  ELSE toLatex003(node, parentPrec, inFunc)

\* toLatex(tree), with the default arguments parentPrec = 0, inFunc = false
Render(f, node) == RenderIn(f, node, 0, FALSE)

\* The own keys of the lookup tables when the module is loaded
LoadedTables ==
  [unary |-> UnaryNames, binary |-> BinaryNames, constants |-> ConstantNames]

\* No call is recorded.
NoCalls ==
  /\ tables = LoadedTables
  /\ calls = <<>>

\* No page of the application is open.
NoBrowser ==
  /\ entries = <<>>
  /\ cursor = 0
  /\ inputValue = <<>>
  /\ event = [kind |-> "none", value |-> <<>>]

\* The step handled last called retryRequest for no id.
NoFailure == [by |-> "none", ids |-> {}]

\* No worker has been created and no request has been sent.
NoWorker ==
  /\ worker = FALSE
  /\ callbacks = <<>>
  /\ msgId = 0
  /\ heartbeatWatchdog = FALSE
  /\ errorListeners = 0
  /\ timeouts = <<>>
  /\ promises = <<>>
  /\ posts = <<>>
  /\ failed = NoFailure
  /\ inbox = <<>>
  /\ replies = <<>>
  /\ riesModuleInstance = 0
  /\ creating = <<>>
  /\ creations = <<>>

\* highlightDifference is not running.
NoHighlight ==
  /\ strA = <<>>
  /\ strB = <<>>
  /\ shown = Pending
  /\ NoCalls

\* parseRIESOutput is not running.
NoRies ==
  /\ lines = <<>>
  /\ lineNo = 0
  /\ results = <<>>
  /\ origin = <<>>
  /\ where = "idle"
  /\ NoHighlight

Init ==
  /\ file \in Files
  /\ family \in Families
  /\ tokens = <<>>
  /\ stack = <<>>
  /\ pc = "loop"
  /\ raised = NoError
  /\ outcome = Pending
  /\ input = <<>>
  /\ NoRies
  /\ NoBrowser
  /\ NoWorker

\* The text read so far, with token t after it.
InputWith(t) == IF input = <<>> THEN t ELSE input \o <<" ">> \o t

\* The loop body succeeds on token t and leaves a node of the given type on top.
Accept(t, types) ==
  LET step == Step(file, stack, t)
  IN /\ pc = "loop"
     /\ Len(tokens) < MaxTokens(family)
     /\ ~step.thrown
     /\ step.stack[Len(step.stack)].type \in types
     /\ tokens' = Append(tokens, t)
     /\ stack' = step.stack
     /\ input' = InputWith(t)
     /\ UNCHANGED <<file, family, pc, raised, outcome, rvars, hvars, cvars, bvars, wvars>>

\* An Error leaves convertForthToLatex: forthParser.js catches it and returns
\* the message as text, part_003 lets it reach the caller.
Leave(error) ==
  /\ raised' = error
  /\ IF file = "forthParser.js"
     THEN pc' = "returned" /\ outcome' = CatchAsText(error)
     ELSE pc' = "thrown" /\ outcome' = error

\* The loop body throws on token t.
Reject(t, kind) ==
  LET step == Step(file, stack, t)
  IN /\ pc = "loop"
     /\ Len(tokens) < MaxTokens(family)
     /\ step.thrown
     /\ step.kind = kind
     /\ tokens' = Append(tokens, t)
     /\ stack' = step.stack
     /\ Leave(Throw(step.kind, step.value))
     /\ input' = InputWith(t)
     /\ UNCHANGED <<file, family, rvars, hvars, cvars, bvars, wvars>>

PushNumber == \E t \in Vocabulary(family) : Accept(t, {"num"})

PushVariable == \E t \in Vocabulary(family) : Accept(t, {"var"})

PushConstant == \E t \in Vocabulary(family) : Accept(t, {"const"})

ApplyUnary == \E t \in Vocabulary(family) : Accept(t, {"func"})

ApplyBinary == \E t \in Vocabulary(family) : Accept(t, {"op"})

ThrowInsufficientOperands ==
  \E t \in Vocabulary(family) : Reject(t, "InsufficientOperands")

ThrowUnknownToken == \E t \in Vocabulary(family) : Reject(t, "UnknownToken")

\* The tokens are used up: the stack check, then toLatex(tree).
EndOfTokens ==
  LET tree == parsePostfixEnd(stack)
      markup == IF tree.thrown THEN tree ELSE Render(file, tree.value)
  IN /\ pc = "loop"
     /\ IF markup.thrown
        THEN Leave(markup)
        ELSE /\ pc' = "returned"
             /\ outcome' = markup
             /\ raised' = NoError
     /\ UNCHANGED <<file, family, tokens, stack, input, rvars, hvars, cvars, bvars, wvars>>

Next ==
  \/ PushNumber
  \/ PushVariable
  \/ PushConstant
  \/ ApplyUnary
  \/ ApplyBinary
  \/ ThrowInsufficientOperands
  \/ ThrowUnknownToken
  \/ EndOfTokens

Spec == Init /\ [][Next]_vars

----------------------------------------------------------------------------
(* Properties of the parser and of convertForthToLatex, checked under Spec *)

\* The call has read all its tokens: it ended in EndOfTokens, not at a token.
AllTokensRead == pc # "loop" /\ raised.kind \notin {"InsufficientOperands", "UnknownToken"}

LastToken == tokens[Len(tokens)]

\* C1: after the last token the parser returns the single node left on the
\* stack, and fails with InvalidExpression, returning no node, exactly when the
\* stack holds zero or at least two entries.
C1_SingleRootOrInvalid ==
  AllTokensRead =>
    IF Len(stack) = 1
    THEN /\ raised.kind # "InvalidExpression"
         /\ raised = NoError => outcome = Render(file, stack[1])
    ELSE /\ raised.kind = "InvalidExpression"
         /\ outcome \in {raised, CatchAsText(raised)}

C1_Witness ==
  /\ AllTokensRead
  /\ tokens = <<<<"x">>, <<"y">>>>
  /\ Len(stack) = 2
  /\ raised.kind = "InvalidExpression"

\* A step of the token loop: one more token has been read.
TokenRead == pc = "loop" /\ tokens' # tokens

\* C2: a unary operator token read on an empty stack, or a binary operator
\* token read on a stack of fewer than two entries, fails with
\* InsufficientOperands at that token and leaves the stack as it was.
C2_UnderflowFails ==
  [][TokenRead =>
       LET t == tokens'[Len(tokens')]
       IN (\/ t \in UnaryNames /\ Len(stack) < 1
           \/ t \in BinaryNames /\ Len(stack) < 2)
          => /\ raised'.kind = "InsufficientOperands"
             /\ stack' = stack]_vars

\* The numeric literals of the token grammar: -?(\d+(\.\d*)?|\.\d+) or -?\d+/\d+
IsGrammarNumber(t) == DECIMAL_RE(t) \/ FRACTION_RE(t)

\* C3: a token that is no numeric literal, no single lowercase letter and no
\* name of the constant, unary or binary table fails with UnknownToken, and
\* no node is pushed for it.
C3_UnknownTokenFails ==
  [][TokenRead =>
       LET t == tokens'[Len(tokens')]
       IN (/\ ~IsGrammarNumber(t)
           /\ ~IsSingleLetter(t)
           /\ t \notin (ConstantNames \cup UnaryNames \cup BinaryNames))
          => /\ raised'.kind = "UnknownToken"
             /\ stack' = stack]_vars

\* C4: convertForthToLatex throws to its caller whenever parsing or rendering
\* raises an Error, and returns a string only when both succeed.
C4_FailsFast ==
  pc # "loop" =>
    /\ raised.thrown => (pc = "thrown" /\ outcome.thrown)
    /\ pc = "returned" => (raised = NoError /\ ~IsNative(outcome.value))

\* C6: a single token of the constant table is classified as Constant and
\* converts to exactly its mapped symbol.
C6_ConstantsMapped ==
  (AllTokensRead /\ Len(tokens) = 1 /\ tokens[1] \in ConstantNames) =>
    /\ stack[1].type = "const"
    /\ outcome = Return(CONSTANTS_TABLE(tokens[1]))

\* C7: a token of the unary operator set read with at least one operand on the
\* stack pops exactly one operand and pushes one UnaryCall on it.
C7_UnaryArityOne ==
  [][TokenRead =>
       LET t == tokens'[Len(tokens')]
           n == Len(stack)
       IN (t \in UnaryNames /\ n >= 1)
          => /\ raised' = NoError
             /\ Len(stack') = n
             /\ SubSeq(stack', 1, n - 1) = SubSeq(stack, 1, n - 1)
             /\ stack'[n].type = "func"
             /\ stack'[n].value = t
             /\ stack'[n].children = <<stack[n]>>]_vars

\* The parentPrec arguments toLatex is called with.
ParentPrecs == {0, 1, 2, 3, Infinity}

IsAtan2(node) == node.type = "op" /\ node.value = <<"a", "t", "a", "n", "2">> (* "atan2" *)

\* The newest node of the stack is an atan2 node whose operands render.
Atan2OnTop ==
  /\ pc = "loop"
  /\ stack # <<>>
  /\ IsAtan2(stack[Len(stack)])
  /\ \A inF \in BOOLEAN : \A k \in {1, 2} :
       ~RenderIn(file, stack[Len(stack)].children[k], 0, inF).thrown

\* \operatorname{<name>}(F,S), F and S the renderings of the operands in order
Atan2Text(name, node, inF) ==
  <<"\\", "o", "p", "e", "r", "a", "t", "o", "r", "n", "a", "m", "e", "{">> (* "\\operatorname{" *) \o name \o <<"}", "(">> (* "}(" *)
    \o ToStr(RenderIn(file, node.children[1], 0, inF).value) \o <<",">>
    \o ToStr(RenderIn(file, node.children[2], 0, inF).value) \o <<")">>

\* C9 as claimed: an atan2 node renders as \operatorname{atan2}(F,S), operands
\* in the order pushed, the same under every enclosing operator and context.
C9_Atan2AsClaimed ==
  Atan2OnTop =>
    \A pp \in ParentPrecs : \A inF \in BOOLEAN :
      RenderIn(file, stack[Len(stack)], pp, inF)
        = Return(Atan2Text(<<"a", "t", "a", "n", "2">> (* "atan2" *), stack[Len(stack)], inF))

\* C9, what the two revisions do: the text is \operatorname{atan_2}(F,S),
\* operands in the order pushed; toLatex adds no parentheses to it inside a
\* function argument, a fraction or an exponent, or under a parent of
\* precedence at most 1, and in part_003 under no parent at all;
\* forthParser.js parenthesizes it under a parent of precedence 2 or 3
\* outside a function argument.
C9_Atan2Call ==
  /\ Atan2OnTop =>
       \A pp \in ParentPrecs : \A inF \in BOOLEAN :
         LET text == Atan2Text(<<"a", "t", "a", "n", "_", "2">> (* "atan_2" *), stack[Len(stack)], inF)
         IN RenderIn(file, stack[Len(stack)], pp, inF)
              = IF file = "forthParser.js" /\ ~inF /\ pp > 1
                THEN Return(Parens(text))
                ELSE Return(text)
  /\ (AllTokensRead /\ tokens = <<<<"a">>, <<"b">>, <<"a", "t", "a", "n", "2">> (* "atan2" *)>>)
       => outcome = Return(<<"\\", "o", "p", "e", "r", "a", "t", "o", "r", "n", "a", "m", "e", "{", "a", "t", "a", "n", "_", "2", "}", "(", "a", ",", "b", ")">> (* "\\operatorname{atan_2}(a,b)" *))

\* atan2 of a variable and a product has been built.
C9_Witness ==
  /\ Atan2OnTop
  /\ tokens = <<<<"a">>, <<"b">>, <<"a">>, <<"*">>, <<"a", "t", "a", "n", "2">> (* "atan2" *)>>

\* The newest node of the stack
Top == stack[Len(stack)]

\* The renderings of a node as an operand, before any parentheses around it
OperandTexts(node) ==
  {ToStr(r.value) : r \in {RenderIn(file, node, 0, inF) : inF \in BOOLEAN}}

\* The newest node is a subtraction whose right operand is a + or - node.
SubtractsSum ==
  /\ stack # <<>>
  /\ Top.type = "op"
  /\ Top.value = <<"-">>
  /\ IsAdditive(Top.children[2])

\* C18: a subtraction whose right operand is a + or - node renders with that
\* operand in parentheses, under every parent precedence and inside or
\* outside a function argument, a fraction or an exponent.
C18_SubtrahendParenthesized ==
  SubtractsSum =>
    \A pp \in ParentPrecs : \A inF \in BOOLEAN :
      LET r == RenderIn(file, Top, pp, inF)
      IN /\ ~r.thrown
         /\ \E right \in OperandTexts(Top.children[2]) :
              Includes(ToStr(r.value), <<" ", "-", " ", "(">> (* " - (" *) \o right \o <<")">>)

\* The newest node is a multiplication.
Multiplies ==
  /\ stack # <<>>
  /\ Top.type = "op"
  /\ Top.value = <<"*">>

\* C19: a multiplication renders each operand that is a + or - node in
\* parentheses, on either side, under every parent precedence and inside or
\* outside a function argument, a fraction or an exponent, also when it puts
\* a bare integer or e^{integer} right operand first: `a 7 + 7 *` gives
\* `7 (a + 7)`.
C19_FactorParenthesized ==
  /\ Multiplies =>
       \A pp \in ParentPrecs : \A inF \in BOOLEAN : \A k \in {1, 2} :
         LET r == RenderIn(file, Top, pp, inF)
         IN IsAdditive(Top.children[k]) =>
              /\ ~r.thrown
              /\ \E operand \in OperandTexts(Top.children[k]) :
                   Includes(ToStr(r.value), Parens(operand))
  /\ (AllTokensRead /\ tokens = <<<<"a">>, <<"7">>, <<"+">>, <<"7">>, <<"*">>>>)
       => outcome = Return(<<"7", " ", "(", "a", " ", "+", " ", "7", ")">> (* "7 (a + 7)" *))

----------------------------------------------------------------------------
(* convertForthToLatex called with a whole string: the sugar dup*.         *)

\* Bound: the number of whitespace-separated words of the string.
MaxSugarWords == 4

\* Words with dup*, alone and glued to other characters, and the operators
\* it stands for.
SugarVocabulary ==
  {<<"x">>, <<"2">>, <<"d", "u", "p", "*">> (* "dup*" *), <<"*", "*">> (* "**" *), <<"^">>, <<"+">>,
   <<"x", "d", "u", "p", "*">> (* "xdup*" *), <<"-", "d", "u", "p", "*">> (* "-dup*" *)}

RECURSIVE Join(_)
Join(words) ==
  IF words = <<>> THEN <<>>
  ELSE IF Len(words) = 1 THEN words[1]
  ELSE words[1] \o <<" ">> \o Join(Tail(words))

SugarInputs ==
  {Join(w) : w \in UNION {[1..n -> SugarVocabulary] : n \in 0..MaxSugarWords}}

InitSugar ==
  /\ file \in Files
  /\ family = "sugar"
  /\ input \in SugarInputs
  /\ tokens = <<>>
  /\ stack = <<>>
  /\ pc = "called"
  /\ raised = NoError
  /\ outcome = Pending
  /\ NoRies
  /\ NoBrowser
  /\ NoWorker

\* The Error thrown inside convertForthToLatex(text), or NoError
RaisedIn(f, text) ==
  Only({IF tried.thrown THEN tried ELSE NoError :
          tried \in {IF f = "forthParser.js" THEN TryConvert(text)
                     ELSE convertForthToLatex003(text)}})

\* convertForthToLatex(text) of revision f
Convert(f, text) ==
  IF f = "forthParser.js" THEN convertForthToLatex(text) ELSE convertForthToLatex003(text)

\* One whole call convertForthToLatex(input).
CallConvert ==
  /\ pc = "called"
  /\ family = "sugar"
  /\ tokens' = Tokenize(input)
  /\ raised' = RaisedIn(file, input)
  /\ outcome' = Convert(file, input)
  /\ pc' = IF outcome'.thrown THEN "thrown" ELSE "returned"
  /\ UNCHANGED <<file, family, stack, input, rvars, hvars, cvars, bvars, wvars>>

NextSugar == CallConvert

SpecSugar == InitSugar /\ [][NextSugar]_vars

\* Each word dup* replaced by the two words 2 and **
RECURSIVE ExpandDup(_)
ExpandDup(words) ==
  IF words = <<>> THEN <<>>
  ELSE (IF words[1] = <<"d", "u", "p", "*">> (* "dup*" *) THEN <<<<"2">>, <<"*", "*">> (* "**" *)>> ELSE <<words[1]>>)
         \o ExpandDup(Tail(words))

\* Each word ** replaced by ^
StarsToCaret(words) ==
  [k \in 1..Len(words) |-> IF words[k] = <<"*", "*">> (* "**" *) THEN <<"^">> ELSE words[k]]

\* C8: a string and the string with each word dup* replaced by `2 **` give the
\* same outcome; with each ** replaced by ^ the call fails in the same way or
\* returns the same markup; x dup*, x 2 ** and x 2 ^ all give x^{2}.
C8_SugarExpansion ==
  (family = "sugar" /\ pc # "called") =>
    LET words == Split(input, 1)
        expanded == Join(ExpandDup(words))
        carets == Join(StarsToCaret(words))
    IN /\ outcome = Convert(file, expanded)
       /\ raised.kind = RaisedIn(file, carets).kind
       /\ raised = NoError => outcome = Convert(file, carets)
       /\ input \in {<<"x", " ", "d", "u", "p", "*">> (* "x dup*" *), <<"x", " ", "2", " ", "*", "*">> (* "x 2 **" *), <<"x", " ", "2", " ", "^">> (* "x 2 ^" *)}
            => outcome = Return(<<"x", "^", "{", "2", "}">> (* "x^{2}" *))

\* A square of a sum written with dup* has been converted.
C8_Witness ==
  /\ family = "sugar"
  /\ input = <<"x", " ", "2", " ", "+", " ", "d", "u", "p", "*">> (* "x 2 + dup*" *)
  /\ outcome = Return(<<"(", "x", " ", "+", " ", "2", ")", "^", "{", "2", "}">> (* "(x + 2)^{2}" *))

----------------------------------------------------------------------------
(* src/src/utils/riesParser.js: the regular expressions.  No line of the    *)
(* model holds a line terminator, so `.` matches every character of a line. *)

\* The character at index k, "" past the end
At(s, k) == IF k \in 1..Len(s) THEN s[k] ELSE ""

\* String.prototype.trim
Trim(s) ==
  Only({LET keep == {k \in 1..Len(v) : v[k] \notin WhiteSpace}
        IN IF keep = {} THEN <<>> ELSE SubStr(v, Least(keep), Greatest(keep)) :
          v \in {s}})

\* Where a greedy run of class (\s* or [...]+) that starts at index j stops
RECURSIVE RunEnd(_, _, _)
RunEnd(s, j, class) ==
  IF At(s, j) \in class THEN RunEnd(s, j + 1, class) ELSE j

SkipSpace(s, j) == RunEnd(s, j, WhiteSpace)

NoMatch == [ok |-> FALSE, from |-> 0, to |-> 0]

\* [\d\.e\+\-]
OffsetChars == Digits \cup {".", "e", "+", "-"}

\* \s+for\s+x\s*=\s*T\s*([+\-]\s*[\d\.e\+\-]+) matched at index j; from..to
\* is group 3.  Every quantifier is greedy and is followed by a character it
\* cannot match, so the match is unique.
OffsetTail(s, j) ==
  LET a == SkipSpace(s, j)
      b == SkipSpace(s, a + 3)
      c == SkipSpace(s, b + 1)
      d == SkipSpace(s, c + 1)
      g == SkipSpace(s, d + 1)
      h == SkipSpace(s, g + 1)
      r == RunEnd(s, h, OffsetChars)
  IN IF /\ j <= Len(s)
        /\ a > j
        /\ StartsWithAt(s, a, <<"f", "o", "r">> (* "for" *))
        /\ b > a + 3
        /\ At(s, b) = "x"
        /\ At(s, c) = "="
        /\ At(s, d) = "T"
        /\ At(s, g) \in {"+", "-"}
        /\ r > h
     THEN [ok |-> TRUE, from |-> g, to |-> r - 1]
     ELSE NoMatch

\* ['"]
Quotes == {"'", "\""}

\* \s+\(['"]exact['"]\s+match\) matched at index j
ExactTail(s, j) ==
  LET a == SkipSpace(s, j)
      b == SkipSpace(s, a + 8)
  IN IF /\ j <= Len(s)
        /\ a > j
        /\ At(s, a) = "("
        /\ At(s, a + 1) \in Quotes
        /\ StartsWithAt(s, a + 2, <<"e", "x", "a", "c", "t">> (* "exact" *))
        /\ At(s, a + 7) \in Quotes
        /\ b > a + 8
        /\ StartsWithAt(s, b, <<"m", "a", "t", "c", "h", ")">> (* "match)" *))
     THEN [ok |-> TRUE, from |-> a, to |-> b + 5]
     ELSE NoMatch

NoEquation == [ok |-> FALSE, lhs |-> <<>>, rhs |-> <<>>, tail |-> NoMatch]

\* The rest of the regular expression named re, matched at index j
TailAt(re, s, j) ==
  IF re = "EQUATION_REGEX" THEN OffsetTail(s, j) ELSE ExactTail(s, j)

\* ^\s*(.*?)\s*=\s*(.*?) followed by TailAt, with group 1 ending at the `=`
\* at index e, group 1 starting at p and group 2 at g, hs the indexes from g
\* on where TailAt matches: group 2 is lazy, so the first of hs ends it; if
\* hs is empty, the regular expression backtracks into the spaces before g
\* and group 2 is empty.  lhs and rhs are the groups after trim().
RestFrom(s, re, p, e, g, hs) ==
  IF hs # {}
  THEN [ok |-> TRUE, lhs |-> Trim(SubStr(s, p, e - 1)),
        rhs |-> Trim(SubStr(s, g, Least(hs) - 1)),
        tail |-> TailAt(re, s, Least(hs))]
  ELSE IF g > e + 1 /\ TailAt(re, s, e + 1).ok
  THEN [ok |-> TRUE, lhs |-> Trim(SubStr(s, p, e - 1)), rhs |-> <<>>,
        tail |-> TailAt(re, s, e + 1)]
  ELSE NoEquation

\* the same, group 2 starting after the spaces that follow the `=`
RestAt(s, re, p, e) ==
  Only({RestFrom(s, re, p, e, g, {h \in g..Len(s) : TailAt(re, s, h).ok}) :
          g \in {SkipSpace(s, e + 1)}})

\* line.match(re): group 1 is lazy, so the first `=` after which the rest
\* matches ends it.
HeadThen(s, re) ==
  Only({LET es == {e \in p..Len(s) : s[e] = "=" /\ RestAt(s, re, p, e).ok}
        IN IF es = {} THEN NoEquation
           ELSE Only({RestAt(s, re, p, e) : e \in {Least(es)}}) :
          p \in {SkipSpace(s, 1)}})

\* line.match(EQUATION_REGEX)
EQUATION_REGEX(line) == HeadThen(line, "EQUATION_REGEX")

\* line.match(EXACT_MATCH_REGEX)
EXACT_MATCH_REGEX(line) == HeadThen(line, "EXACT_MATCH_REGEX")

\* text.match(/T = ([\d\.]+)/) in one line: group 1 of the leftmost match
TargetValueIn(line) ==
  LET at == {k \in 1..Len(line) :
               StartsWithAt(line, k, <<"T", " ", "=", " ">> (* "T = " *)) /\ At(line, k + 4) \in Digits \cup {"."}}
      k == Least(at)
  IN IF at = {} THEN <<>>
     ELSE SubStr(line, k + 4, RunEnd(line, k + 4, Digits \cup {"."}) - 1)

----------------------------------------------------------------------------
(* src/src/utils/riesParser.js: parseRIESOutput(text), one step per line    *)
(* of the for loop.  `lines` is text.split("\n"), so text is the empty      *)
(* string exactly when lines is one empty line.                             *)

\* Bound: the number of lines of the text.
MaxLines == 3

\* Lines of solver output: both grammars, a side that does not convert, both
\* sides that do not, a line of both grammars at once, an offset that is
\* missing, a second `=`, banner lines and an empty line; an offset that is
\* no number, an exact-match line in the quotation marks U+2018 and
\* U+2019, each of which is one character of the line, and one in double
\* quotation marks.
LinePool ==
  {<<"x", " ", "2", " ", "^", " ", "=", " ", "2", " ", "x", " ", "f", "o", "r", " ", "x", " ", "=", " ", "T", " ", "-", " ", "3", ".", "5">> (* "x 2 ^ = 2 x for x = T - 3.5" *),
   <<"x", " ", "1", " ", "+", " ", "=", " ", "2", " ", "x", " ", "*", " ", "f", "o", "r", " ", "x", " ", "=", " ", "T", " ", "+", " ", "2", ".", "2", "1", "7", "8", "e", "-", "0", "7">> (* "x 1 + = 2 x * for x = T + 2.2178e-07" *),
   <<"x", " ", "+", " ", "1", " ", "=", " ", "2", " ", "x", " ", "f", "o", "r", " ", "x", " ", "=", " ", "T", " ", "-", " ", "3", ".", "5">> (* "x + 1 = 2 x for x = T - 3.5" *),
   <<"x", " ", "=", " ", "8", " ", "d", "u", "p", "*", " ", "5", " ", "+", " ", "(", "'", "e", "x", "a", "c", "t", "'", " ", "m", "a", "t", "c", "h", ")">> (* "x = 8 dup* 5 + ('exact' match)" *),
   <<" ", " ", "x", " ", " ", "=", " ", " ", "p", "i", " ", " ", " ", "f", "o", "r", " ", " ", "x", " ", " ", "=", " ", " ", "T", " ", " ", "-", " ", " ", "1", " ", "(", "'", "e", "x", "a", "c", "t", "'", " ", "m", "a", "t", "c", "h", ")">> (* "  x  =  pi   for  x  =  T  -  1 ('exact' match)" *),
   <<"a", " ", "=", " ", "b", " ", "=", " ", "x", " ", "(", "'", "e", "x", "a", "c", "t", "'", " ", "m", "a", "t", "c", "h", ")">> (* "a = b = x ('exact' match)" *),
   <<"x", " ", "=", " ", "1", " ", "f", "o", "r", " ", "x", " ", "=", " ", "T">> (* "x = 1 for x = T" *),
   <<"Y", "o", "u", "r", " ", "t", "a", "r", "g", "e", "t", " ", "v", "a", "l", "u", "e", ":", " ", "T", " ", "=", " ", "2", ".", "5">> (* "Your target value: T = 2.5" *),
   <<" ", " ", " ", "m", "r", "o", "b", ".", "c", "o", "m", "/", "r", "i", "e", "s">> (* "   mrob.com/ries" *),
   <<"x", " ", "=", " ", "1", " ", "f", "o", "r", " ", "x", " ", "=", " ", "T", " ", "-", " ", "e">> (* "x = 1 for x = T - e" *),
   <<"x", " ", "=", " ", "2", " ", "(", "U+2018", "e", "x", "a", "c", "t", "U+2019", " ", "m", "a", "t", "c", "h", ")">>,
   <<"x", " ", "=", " ", "2", " ", "(", "\"", "e", "x", "a", "c", "t", "\"", " ", "m", "a", "t", "c", "h", ")">> (* "x = 2 (\"exact\" match)" *),
   <<>>}

Texts == UNION {[1..n -> LinePool] : n \in 1..MaxLines}

\* the filter predicate of equationLines
IsEquationLine(line) ==
  /\ Includes(line, <<"=">>)
  /\ \/ /\ Includes(line, <<"f", "o", "r", " ", "x", " ", "=", " ", "T">> (* "for x = T" *))
        /\ ~Includes(line, <<"Y", "o", "u", "r", " ", "t", "a", "r", "g", "e", "t", " ", "v", "a", "l", "u", "e">> (* "Your target value" *))
     \/ Includes(line, <<"(", "'", "e", "x", "a", "c", "t", "'", " ", "m", "a", "t", "c", "h", ")">> (* "('exact' match)" *))

\* text.includes(lit), for a lit without a newline
TextIncludes(ls, lit) == \E k \in 1..Len(ls) : Includes(ls[k], lit)

\* text.match(/T = ([\d\.]+)/): group 1 of the first match, <<>> if none
MatchedValue(ls) ==
  LET with == {k \in 1..Len(ls) : TargetValueIn(ls[k]) # <<>>}
  IN IF with = {} THEN <<>> ELSE TargetValueIn(ls[Least(with)])

\* the record returned when no line is an equation line
NoEquationsFound(ls) ==
  [lhs |-> <<"x">>,
   rhs |-> <<"\\", "t", "e", "x", "t", "{", "N", "o", " ", "e", "q", "u", "a", "t", "i", "o", "n", "s", " ", "f", "o", "u", "n", "d", " ", "f", "o", "r", " ", "}", " ">> (* "\\text{No equations found for } " *)
             \o (IF MatchedValue(ls) = <<>> THEN <<"v", "a", "l", "u", "e">> (* "value" *) ELSE MatchedValue(ls)),
   offset |-> <<"0">>]

\* the try/catch around the two conversions of one matched line
RecordOf(f, lhsRaw, rhsRaw, offset, fallback) ==
  Only({IF l.thrown \/ r.thrown
        THEN [lhs |-> lhsRaw, rhs |-> rhsRaw, offset |-> fallback]
        ELSE [lhs |-> l.value, rhs |-> r.value, offset |-> offset] :
          l \in {Convert(f, lhsRaw)}, r \in {Convert(f, rhsRaw)}})

\* the record pushed for a line that matches EQUATION_REGEX
OffsetRecord(f, line) ==
  Only({LET offsetRaw == Trim(SubStr(line, m.tail.from, m.tail.to))
        IN RecordOf(f, m.lhs, m.rhs, offsetRaw,
                    IF offsetRaw = <<>> THEN <<"0">> ELSE offsetRaw) :
          m \in {EQUATION_REGEX(line)}})

\* the record pushed for a line that matches EXACT_MATCH_REGEX
ExactRecord(f, line) ==
  Only({RecordOf(f, m.lhs, m.rhs, <<"0">>, <<"0">>) :
          m \in {EXACT_MATCH_REGEX(line)}})

\* results.push(record), put at the front instead (mutant of Push_)
Push_Front(list, record) == <<record>> \o list

\* results.push(record)
Push_(list, record) == Append(list, record)

InitRies ==
  /\ file \in Files
  /\ family = "ries"
  /\ input = <<>>
  /\ tokens = <<>>
  /\ stack = <<>>
  /\ pc = "idle"
  /\ raised = NoError
  /\ outcome = Pending
  /\ lines \in Texts
  /\ lineNo = 0
  /\ results = <<>>
  /\ origin = <<>>
  /\ where = "called"
  /\ NoHighlight
  /\ NoBrowser
  /\ NoWorker

Return_(list) ==
  /\ where' = "returned"
  /\ results' = list
  /\ UNCHANGED <<pvars, lines, lineNo, origin, hvars, cvars, bvars, wvars>>

\* if (!text || text.length === 0) return []
ReturnEmptyText ==
  /\ where = "called"
  /\ lines = <<<<>>>>
  /\ Return_(<<>>)

\* no equation line, but the banner of the solver: one synthetic record
ReturnNoEquationsFound ==
  /\ where = "called"
  /\ lines # <<<<>>>>
  /\ \A k \in 1..Len(lines) : ~IsEquationLine(lines[k])
  /\ \/ TextIncludes(lines, <<"Y", "o", "u", "r", " ", "t", "a", "r", "g", "e", "t", " ", "v", "a", "l", "u", "e", ":">> (* "Your target value:" *))
     \/ TextIncludes(lines, <<"m", "r", "o", "b", ".", "c", "o", "m", "/", "r", "i", "e", "s">> (* "mrob.com/ries" *))
  /\ Return_(<<NoEquationsFound(lines)>>)

\* no equation line and no banner: return []
ReturnNothing ==
  /\ where = "called"
  /\ lines # <<<<>>>>
  /\ \A k \in 1..Len(lines) : ~IsEquationLine(lines[k])
  /\ ~TextIncludes(lines, <<"Y", "o", "u", "r", " ", "t", "a", "r", "g", "e", "t", " ", "v", "a", "l", "u", "e", ":">> (* "Your target value:" *))
  /\ ~TextIncludes(lines, <<"m", "r", "o", "b", ".", "c", "o", "m", "/", "r", "i", "e", "s">> (* "mrob.com/ries" *))
  /\ Return_(<<>>)

\* equationLines is not empty: the for loop starts
EnterLoop ==
  /\ where = "called"
  /\ \E k \in 1..Len(lines) : IsEquationLine(lines[k])
  /\ where' = "loop"
  /\ lineNo' = 1
  /\ UNCHANGED <<pvars, lines, results, origin, hvars, cvars, bvars, wvars>>

NextLine(record) ==
  /\ results' = Push_(results, record)
  /\ origin' = Push_(origin, lineNo)
  /\ lineNo' = lineNo + 1
  /\ UNCHANGED <<pvars, lines, where, hvars, cvars, bvars, wvars>>

\* the line matches EQUATION_REGEX: one record, then continue
OffsetLine ==
  /\ where = "loop"
  /\ lineNo <= Len(lines)
  /\ EQUATION_REGEX(lines[lineNo]).ok
  /\ NextLine(OffsetRecord(file, lines[lineNo]))

\* the line matches EXACT_MATCH_REGEX only
ExactLine ==
  /\ where = "loop"
  /\ lineNo <= Len(lines)
  /\ ~EQUATION_REGEX(lines[lineNo]).ok
  /\ EXACT_MATCH_REGEX(lines[lineNo]).ok
  /\ NextLine(ExactRecord(file, lines[lineNo]))

\* the line matches neither regular expression
OtherLine ==
  /\ where = "loop"
  /\ lineNo <= Len(lines)
  /\ ~EQUATION_REGEX(lines[lineNo]).ok
  /\ ~EXACT_MATCH_REGEX(lines[lineNo]).ok
  /\ lineNo' = lineNo + 1
  /\ UNCHANGED <<pvars, lines, results, origin, where, hvars, cvars, bvars, wvars>>

\* return results
ReturnResults ==
  /\ where = "loop"
  /\ lineNo > Len(lines)
  /\ Return_(results)

NextRies ==
  \/ ReturnEmptyText
  \/ ReturnNoEquationsFound
  \/ ReturnNothing
  \/ EnterLoop
  \/ OffsetLine
  \/ ExactLine
  \/ OtherLine
  \/ ReturnResults

SpecRies == InitRies /\ [][NextRies]_vars

----------------------------------------------------------------------------
(* Properties of parseRIESOutput, checked under SpecRies                   *)

\* The groups of the grammar line.match found first
GroupsOf(line) ==
  IF EQUATION_REGEX(line).ok THEN EQUATION_REGEX(line) ELSE EXACT_MATCH_REGEX(line)

\* One side converted on its own: its markup, or the raw text if it fails
SideOf(f, raw) ==
  IF RaisedIn(f, raw).thrown THEN raw ELSE Convert(f, raw).value

\* C5: every line that matches a grammar yields a record, and each side of
\* the record is converted independently: a side that fails is the raw
\* substring, a side that converts is its markup.
C5_SidesIndependent ==
  /\ \A i \in 1..Len(lines) :
       (where = "loop" /\ i < lineNo /\ GroupsOf(lines[i]).ok)
         => \E k \in 1..Len(origin) : origin[k] = i
  /\ \A k \in 1..Len(origin) :
       /\ results[k].lhs = SideOf(file, GroupsOf(lines[origin[k]]).lhs)
       /\ results[k].rhs = SideOf(file, GroupsOf(lines[origin[k]]).rhs)

\* The records of the first n lines, line by line: the offset form first,
\* the exact-match form only if the offset form does not match.
RECURSIVE RecordsOfLines(_, _, _)
RecordsOfLines(f, ls, n) ==
  IF n = 0 THEN <<>>
  ELSE RecordsOfLines(f, ls, n - 1)
         \o (IF EQUATION_REGEX(ls[n]).ok THEN <<OffsetRecord(f, ls[n])>>
             ELSE IF EXACT_MATCH_REGEX(ls[n]).ok THEN <<ExactRecord(f, ls[n])>>
             ELSE <<>>)

\* C10: the records are in the order of their lines, at most one per line,
\* and a line of the offset form gives the record of the offset form.
C10_RecordsInLineOrder ==
  /\ \A j, k \in 1..Len(origin) : j < k => origin[j] < origin[k]
  /\ lineNo > 0 =>
       /\ Len(origin) = Len(results)
       /\ results = RecordsOfLines(file, lines, lineNo - 1)
  /\ (where = "returned" /\ lineNo > 0) =>
       \A i \in 1..Len(lines) :
         Cardinality({k \in 1..Len(origin) : origin[k] = i})
           = IF GroupsOf(lines[i]).ok THEN 1 ELSE 0

\* Three lines were read: an offset line, a banner line that gives no
\* record, and a line of both forms, which gave one record of the offset form.
C10_Witness ==
  /\ where = "returned"
  /\ lines = <<<<"x", " ", "1", " ", "+", " ", "=", " ", "2", " ", "x", " ", "*", " ", "f", "o", "r", " ", "x", " ", "=", " ", "T", " ", "+", " ", "2", ".", "2", "1", "7", "8", "e", "-", "0", "7">> (* "x 1 + = 2 x * for x = T + 2.2178e-07" *),
               <<"Y", "o", "u", "r", " ", "t", "a", "r", "g", "e", "t", " ", "v", "a", "l", "u", "e", ":", " ", "T", " ", "=", " ", "2", ".", "5">> (* "Your target value: T = 2.5" *),
               <<" ", " ", "x", " ", " ", "=", " ", " ", "p", "i", " ", " ", " ", "f", "o", "r", " ", " ", "x", " ", " ", "=", " ", " ", "T", " ", " ", "-", " ", " ", "1", " ", "(", "'", "e", "x", "a", "c", "t", "'", " ", "m", "a", "t", "c", "h", ")">> (* "  x  =  pi   for  x  =  T  -  1 ('exact' match)" *)>>
  /\ origin = <<1, 3>>
  /\ results[2].offset = <<"-", " ", " ", "1">> (* "-  1" *)
  /\ results[1].lhs # results[2].lhs

\* A signed number: sign, optional spaces, digits and decimal point, and
\* optionally an exponent `e` with optional sign and digits
IsSignedNumber(s) ==
  LET a == SkipSpace(s, 2)
      b == RunEnd(s, a, Digits \cup {"."})
      c == IF At(s, b) # "e" THEN b
           ELSE IF At(s, b + 1) \in {"+", "-"} THEN b + 2 ELSE b + 1
      d == IF c > b THEN RunEnd(s, c, Digits) ELSE b
  IN /\ At(s, 1) \in {"+", "-"}
     /\ \E k \in a..(b - 1) : s[k] \in Digits
     /\ c > b => d > c
     /\ d = Len(s) + 1

\* offset is the text that follows a `T` of the line and the spaces after
\* it, up to a character that cannot continue a number
CopiedAfterT(line, offset) ==
  \E j \in 1..Len(line) :
    /\ line[j] = "T"
    /\ StartsWithAt(line, SkipSpace(line, j + 1), offset)
    /\ At(line, SkipSpace(line, j + 1) + Len(offset))
         \notin WordChars \cup {".", "+", "-"}

\* C11: every record returned has an offset that is "0" or a signed
\* decimal or scientific-notation number copied verbatim, and whole, from
\* the text after `T` on its line.
C11_OffsetIsNumber ==
  where = "returned" =>
    \A k \in 1..Len(results) :
      \/ results[k].offset = <<"0">>
      \/ /\ IsSignedNumber(results[k].offset)
         /\ k <= Len(origin)
         /\ CopiedAfterT(lines[origin[k]], results[k].offset)

\* The quotation marks U+2018 and U+2019
UnicodeQuotes == {"U+2018", "U+2019"}

\* The line with each Unicode quotation mark replaced by the ASCII one
AsciiQuoted(line) ==
  [k \in 1..Len(line) |-> IF line[k] \in UnicodeQuotes THEN "'" ELSE line[k]]

\* C12: a line of the exact-match form, in ASCII or in Unicode quotation
\* marks, that is not of the offset form yields a record of offset "0";
\* `x = 8 dup* 5 + ('exact' match)` yields lhs `x` and rhs `8^{2} + 5`.
C12_ExactMatchOffsetZero ==
  where = "returned" =>
    \A i \in 1..Len(lines) :
      (EXACT_MATCH_REGEX(AsciiQuoted(lines[i])).ok /\ ~EQUATION_REGEX(lines[i]).ok)
        => \E k \in 1..Len(origin) :
             /\ origin[k] = i
             /\ results[k].offset = <<"0">>
             /\ lines[i] = <<"x", " ", "=", " ", "8", " ", "d", "u", "p", "*", " ", "5", " ", "+", " ", "(", "'", "e", "x", "a", "c", "t", "'", " ", "m", "a", "t", "c", "h", ")">> (* "x = 8 dup* 5 + ('exact' match)" *)
                  => /\ results[k].lhs = <<"x">>
                     /\ results[k].rhs = <<"8", "^", "{", "2", "}", " ", "+", " ", "5">> (* "8^{2} + 5" *)

\* The line is of the offset form or of the exact-match form
MatchesGrammar(line) ==
  EQUATION_REGEX(line).ok \/ EXACT_MATCH_REGEX(AsciiQuoted(line)).ok

\* C13: when no line is of either form and the text holds the banner of
\* the solver, exactly one record is returned, the synthetic one, of
\* offset "0".
C13_BannerGivesOneRecord ==
  ( /\ where = "returned"
    /\ \A i \in 1..Len(lines) : ~MatchesGrammar(lines[i])
    /\ \/ TextIncludes(lines, <<"Y", "o", "u", "r", " ", "t", "a", "r", "g", "e", "t", " ", "v", "a", "l", "u", "e", ":">> (* "Your target value:" *))
       \/ TextIncludes(lines, <<"m", "r", "o", "b", ".", "c", "o", "m", "/", "r", "i", "e", "s">> (* "mrob.com/ries" *)) )
    => /\ Len(results) = 1
       /\ results[1].offset = <<"0">>
       /\ StartsWithAt(results[1].rhs, 1, <<"\\", "t", "e", "x", "t", "{", "N", "o", " ", "e", "q", "u", "a", "t", "i", "o", "n", "s", " ", "f", "o", "u", "n", "d", " ", "f", "o", "r", " ", "}">> (* "\\text{No equations found for }" *))

----------------------------------------------------------------------------
(* src/src/utils/formatting.js: highlightDifference(strA, strB).            *)

\* An argument that was not passed
Undefined == <<"[undefined]">>

\* The lower-case letter of a letter, for the flag i of a regular expression
ToLowerCase(c) ==
  LET upper == <<"A", "B", "C", "D", "E", "F", "G", "H", "I", "J", "K", "L", "M",
                 "N", "O", "P", "Q", "R", "S", "T", "U", "V", "W", "X", "Y", "Z">>
      lower == <<"a", "b", "c", "d", "e", "f", "g", "h", "i", "j", "k", "l", "m",
                 "n", "o", "p", "q", "r", "s", "t", "u", "v", "w", "x", "y", "z">>
  IN IF c \in UpperCase THEN lower[Only({k \in 1..26 : upper[k] = c})] ELSE c

\* lit, in lower case, matches at index p whatever the case of the letters
StartsWithAtI(s, p, lit) ==
  /\ p + Len(lit) - 1 <= Len(s)
  /\ \A k \in 1..Len(lit) : ToLowerCase(s[p + k - 1]) = lit[k]

\* The characters [+-]?\d*\.?\d+ can match
CoefficientChars == Digits \cup {"+", "-", "."}

\* [+-]?\d*\.?\d+ matches the whole of s
IsCoefficient(s) ==
  LET a == IF At(s, 1) \in {"+", "-"} THEN 2 ELSE 1
      b == RunEnd(s, a, Digits)
      c == IF At(s, b) = "." THEN b + 1 ELSE b
      d == RunEnd(s, c, Digits)
  IN /\ d = Len(s) + 1
     /\ d > c \/ (c = b /\ b > a)

\* ([+-]?\d+) at index c: where the group stops, or 0 if it does not match
SignedDigitsEnd(s, c) ==
  LET d == IF At(s, c) \in {"+", "-"} THEN c + 1 ELSE c
      r == RunEnd(s, d, Digits)
  IN IF r > d THEN r ELSE 0

\* \s*\\cdot\s*10\^{([+-]?\d+)} matched at index j; from..to is group 2
CdotTail(s, j) ==
  LET a == SkipSpace(s, j)
      b == SkipSpace(s, a + 5)
      r == SignedDigitsEnd(s, b + 4)
  IN IF /\ StartsWithAtI(s, a, <<"\\", "c", "d", "o", "t">> (* "\\cdot" *))
        /\ StartsWithAt(s, b, <<"1", "0", "^", "{">> (* "10^{" *))
        /\ r > 0
        /\ At(s, r) = "}"
     THEN [ok |-> TRUE, from |-> b + 4, to |-> r - 1]
     ELSE NoMatch

\* [eE]([+-]?\d+) matched at index j; from..to is group 2
ENotationTail(s, j) ==
  LET r == SignedDigitsEnd(s, j + 1)
  IN IF At(s, j) \in {"e", "E"} /\ r > 0
     THEN [ok |-> TRUE, from |-> j + 1, to |-> r - 1]
     ELSE NoMatch

\* The rest of the regular expression of the given format, matched at j
ExponentTail(format, s, j) ==
  IF format = "latex" THEN CdotTail(s, j) ELSE ENotationTail(s, j)

\* parseInt(digits) of an unsigned digit run
RECURSIVE DigitsToNat(_)
DigitsToNat(s) ==
  IF s = <<>> THEN 0
  ELSE 10 * DigitsToNat(SubStr(s, 1, Len(s) - 1))
         + Only({k \in 0..9 : NatToStr(k) = <<s[Len(s)]>>})

\* parseInt(s) of a text [+-]?\d+
ParseInt(s) ==
  IF s[1] = "-" THEN 0 - DigitsToNat(SubStr(s, 2, Len(s)))
  ELSE IF s[1] = "+" THEN DigitsToNat(SubStr(s, 2, Len(s)))
  ELSE DigitsToNat(s)

\* `${n}` of an integer
IntToStr(n) == IF n < 0 THEN <<"-">> \o NatToStr(0 - n) ELSE NatToStr(n)

\* s.replace(/\s+/g, '')
WithoutSpace(s) == SelectSeq(s, LAMBDA c : c \notin WhiteSpace)

NotScientific == [ok |-> FALSE, coefficient |-> <<>>, exponent |-> 0, format |-> "none"]

\* str.match of the regular expression of the given format: the leftmost
\* index where it matches.  Group 1 is made of CoefficientChars and is
\* followed by a character that is none of them, so a match that starts at
\* i takes the whole run of CoefficientChars from i.
ScientificAs(format, str) ==
  LET at == {i \in 1..Len(str) :
               LET j == RunEnd(str, i, CoefficientChars)
               IN /\ j > i
                  /\ IsCoefficient(SubStr(str, i, j - 1))
                  /\ ExponentTail(format, str, j).ok}
  IN IF at = {} THEN NotScientific
     ELSE Only({[ok |-> TRUE,
                 coefficient |-> WithoutSpace(SubStr(str, i, j - 1)),
                 exponent |-> ParseInt(SubStr(str, t.from, t.to)),
                 format |-> format] :
                  i \in {Least(at)},
                  j \in {RunEnd(str, Least(at), CoefficientChars)},
                  t \in {ExponentTail(format, str, RunEnd(str, Least(at), CoefficientChars))}})

\* parseScientificNotation(str): the LaTeX format first, then the e notation
parseScientificNotation(str) ==
  IF ScientificAs("latex", str).ok THEN ScientificAs("latex", str)
  ELSE ScientificAs("e", str)

\* \textcolor{lightgray}{diffPart}
Highlight(diffPart) == <<"\\", "t", "e", "x", "t", "c", "o", "l", "o", "r", "{", "l", "i", "g", "h", "t", "g", "r", "a", "y", "}", "{">> (* "\\textcolor{lightgray}{" *) \o diffPart \o <<"}">>

\* formatScientificResult(matchingPart, diffPart, exponent, format, originalFormat)
formatScientificResult(matchingPart, diffPart, exponent, format, originalFormat) ==
  IF originalFormat # Undefined /\ Includes(originalFormat, <<"\\", "c", "d", "o", "t", " ", "1", "0", "^", "{", "0", "}">> (* "\\cdot 10^{0}" *))
  THEN matchingPart \o Highlight(diffPart) \o <<" ", "\\", "c", "d", "o", "t", " ", "1", "0", "^", "{", "0", "}">> (* " \\cdot 10^{0}" *)
  ELSE IF format = "e"
  THEN matchingPart \o Highlight(diffPart) \o <<"e">> \o IntToStr(exponent)
  ELSE IF exponent = 0
  THEN matchingPart \o Highlight(diffPart)
  ELSE matchingPart \o Highlight(diffPart) \o <<" ", "\\", "c", "d", "o", "t", " ", "1", "0", "^", "{">> (* " \\cdot 10^{" *)
         \o IntToStr(exponent) \o <<"}">>

\* The number of characters a and b have in common from the left
MatchPos(a, b) ==
  Least({k \in 0..Len(a) : k = Len(a) \/ k >= Len(b) \/ a[k + 1] # b[k + 1]})

\* formatScientificResult(coefficient.substring(0, pos),
\*                        coefficient.substring(pos), exponent, format)
HighlightFrom(pos, b) ==
  formatScientificResult(SubStr(b.coefficient, 1, pos),
                         SubStr(b.coefficient, pos + 1, Len(b.coefficient)),
                         b.exponent, b.format, Undefined)

\* Both numbers are in scientific notation, with the same exponent: the
\* coefficients are compared character by character.
CompareCoefficients(a, b, sB) ==
  LET matchPos == MatchPos(a.coefficient, b.coefficient)
  IN IF matchPos >= Len(b.coefficient) THEN sB ELSE HighlightFrom(matchPos, b)

\* strB is in scientific notation and strA is not, or has another exponent:
\* the numbers are compared as IEEE 754 doubles (parseFloat, Math.pow,
\* toFixed).  That arithmetic is not computed here.  Every return of the
\* block gives strB or the coefficient highlighted from one of its
\* positions on: the outcomes are all of these.
CompareValues(b, sB) ==
  {sB} \cup {HighlightFrom(pos, b) : pos \in 0..(Len(b.coefficient) - 1)}

\* /^-?\d+(?:\.\d*)?$/.test(s)
intDecDotRe(s) ==
  LET a == IF At(s, 1) = "-" THEN 2 ELSE 1
      b == RunEnd(s, a, Digits)
      c == IF At(s, b) = "." THEN RunEnd(s, b + 1, Digits) ELSE b
  IN b > a /\ c = Len(s) + 1

\* strA with "0" after a trailing decimal point
aNorm(s) == IF Len(s) > 0 /\ s[Len(s)] = "." THEN s \o <<"0">> ELSE s

\* Keeps the first idx characters of strB and highlights the rest
HighlightRest(sB, idx) ==
  SubStr(sB, 1, idx) \o Highlight(SubStr(sB, idx + 1, Len(sB)))

\* The implicit zeros without the zeros: the rest is highlighted from the
\* end of aNorm(strA) on (mutant of ExtendThroughZeros)
ExtendThroughZeros_PrefixOnly(sA, sB) ==
  IF Len(aNorm(sA)) >= Len(sB) THEN sB ELSE HighlightRest(sB, Len(aNorm(sA)))

\* strB starts with aNorm(strA): the zeros that follow, after the decimal
\* point if it comes next, are consumed too.  idx counts from 0, as in the
\* code: strB[idx] is At(strB, idx + 1).
ExtendThroughZeros(sA, sB) ==
  LET first == Len(aNorm(sA))
      from == IF At(sB, first + 1) = "." THEN first + 1 ELSE first
      idx == RunEnd(sB, from + 1, {"0"}) - 1
  IN IF idx >= Len(sB) THEN sB ELSE HighlightRest(sB, idx)

\* The standard comparison highlighting the whole of strB when the strings
\* differ (mutant of CompareCharacters)
CompareCharacters_Whole(sA, sB) == IF sA = sB THEN sB ELSE HighlightRest(sB, 0)

\* The standard comparison without its test for a complete match (mutant
\* of CompareCharacters)
CompareCharacters_NoMatchTest(sA, sB) == HighlightRest(sB, MatchPos(sB, sA))

\* The standard comparison of strA and strB, character by character
CompareCharacters(sA, sB) ==
  LET i == MatchPos(sB, sA)
  IN IF i = Len(sB) THEN sB ELSE HighlightRest(sB, i)

\* Which part of highlightDifference handles the two strings
BranchOf(a, b) ==
  IF parseScientificNotation(b).ok
  THEN IF /\ parseScientificNotation(a).ok
          /\ parseScientificNotation(a).exponent = parseScientificNotation(b).exponent
       THEN "coefficients" ELSE "values"
  ELSE IF intDecDotRe(a) /\ StartsWithAt(b, 1, aNorm(a)) THEN "zeros"
  ELSE "characters"

\* highlightDifference(strA, strB): the strings it can return
highlightDifference(a, b) ==
  Only({IF branch = "coefficients"
        THEN {CompareCoefficients(parseScientificNotation(a), parseScientificNotation(b), b)}
        ELSE IF branch = "values" THEN CompareValues(parseScientificNotation(b), b)
        ELSE IF branch = "zeros" THEN {ExtendThroughZeros(a, b)}
        ELSE {CompareCharacters(a, b)} : branch \in {BranchOf(a, b)}})

----------------------------------------------------------------------------
(* highlightDifference as a state machine: one call, one step, which is    *)
(* the part of the function that handles the two strings.                  *)

\* Bound: the length of the strings made of NumberChars.
MaxChars == 3

NumberChars == {"3", "0", ".", "e"}

\* Every string of NumberChars, the empty one included
AllStrings == UNION {[1..n -> NumberChars] : n \in 0..MaxChars}

\* The numbers of the tests, and numbers in scientific notation whose
\* exponent is written with a sign or with a leading zero
NumberPool ==
  {<<"3">>, <<"3", ".">> (* "3." *), <<"3", ".", "1">> (* "3.1" *), <<"-", "3", ".", "5">> (* "-3.5" *), <<"3", ".", "0", "0", "0", "0", "0", "0", "0">> (* "3.0000000" *),
   <<"3", ".", "1", "0", "0", "4", "4", "1", "0">> (* "3.1004410" *), <<"3", ".", "0", "1", "2", "3">> (* "3.0123" *), <<"3", "0", ".", "5">> (* "30.5" *),
   <<"0", ".", "2", "3", "4", "9", "0", "9", "4", "2">> (* "0.23490942" *), <<"0", ".", "2", "3", "6", "0", "6", "7", "9", "8">> (* "0.23606798" *), <<"1", "2", "3", ".", "4", "5", "6">> (* "123.456" *), <<"1", "2", "3", ".", "4", "5", "7">> (* "123.457" *),
   <<"-", "1", "2", "3", ".", "4", "5", "7">> (* "-123.457" *), <<"1", ".", "4", "e", "0", "5">> (* "1.4e05" *), <<"1", ".", "5", "e", "0", "5">> (* "1.5e05" *), <<"1", ".", "5", "E", "+", "5">> (* "1.5E+5" *),
   <<"1", ".", "2", "e", "1", "0">> (* "1.2e10" *), <<"1", ".", "2", "3", "4", "5", "6", " ", "\\", "c", "d", "o", "t", " ", "1", "0", "^", "{", "1", "0", "}">> (* "1.23456 \\cdot 10^{10}" *), <<"1", "2", "3", "4", "5", "6", "0", "0", "0", "0", "0">> (* "12345600000" *),
   <<"3", ".", "1", "4", "1", "5", "9", "2", "6", "5", "3", "5", "9">> (* "3.14159265359" *), <<"3", ".", "1", "4", "1", "5", "9", "2", "6", "5", "3", "6", " ", "\\", "c", "d", "o", "t", " ", "1", "0", "^", "{", "0", "}">> (* "3.1415926536 \\cdot 10^{0}" *)}

InitHighlight ==
  /\ file = "forthParser.js"
  /\ family = "highlight"
  /\ input = <<>>
  /\ tokens = <<>>
  /\ stack = <<>>
  /\ pc = "idle"
  /\ raised = NoError
  /\ outcome = Pending
  /\ lines = <<>>
  /\ lineNo = 0
  /\ results = <<>>
  /\ origin = <<>>
  /\ where = "idle"
  /\ \E pair \in (AllStrings \X AllStrings) \cup (NumberPool \X NumberPool) :
       strA = pair[1] /\ strB = pair[2]
  /\ shown = Pending
  /\ NoCalls
  /\ NoBrowser
  /\ NoWorker

\* highlightDifference returns one of the strings it can return
ReturnMarkup ==
  /\ shown = Pending
  /\ \E markup \in highlightDifference(strA, strB) : shown' = Return(markup)
  /\ UNCHANGED <<pvars, rvars, strA, strB, cvars, bvars, wvars>>

\* both in scientific notation, the same exponent
SameExponent ==
  /\ BranchOf(strA, strB) = "coefficients"
  /\ ReturnMarkup

\* strB in scientific notation, compared by value
ByValue ==
  /\ BranchOf(strA, strB) = "values"
  /\ ReturnMarkup

\* the implicit zeros of an integer, decimal or trailing-dot strA
ImplicitZeros ==
  /\ BranchOf(strA, strB) = "zeros"
  /\ ReturnMarkup

\* the standard string comparison
Standard ==
  /\ BranchOf(strA, strB) = "characters"
  /\ ReturnMarkup

NextHighlight ==
  \/ SameExponent
  \/ ByValue
  \/ ImplicitZeros
  \/ Standard

SpecHighlight == InitHighlight /\ [][NextHighlight]_vars

----------------------------------------------------------------------------
(* Properties of highlightDifference, checked under SpecHighlight          *)

\* The highlight marker occurs in s
IsHighlighted(s) == Includes(s, <<"\\", "t", "e", "x", "t", "c", "o", "l", "o", "r">> (* "\\textcolor" *))

\* C14: highlightDifference(A, A) returns A unmodified, with no highlight
\* marker, for every string A.
C14_Identity ==
  (shown # Pending /\ strA = strB)
    => shown = Return(strA) /\ ~IsHighlighted(shown.value)

\* A number in scientific notation was compared with itself.
C14_Witness ==
  /\ strA = <<"1", ".", "2", "3", "4", "5", "6", " ", "\\", "c", "d", "o", "t", " ", "1", "0", "^", "{", "1", "0", "}">> (* "1.23456 \\cdot 10^{10}" *)
  /\ strB = strA
  /\ shown = Return(strA)

\* The digits of s, in order
DigitsOf(s) == SelectSeq(s, LAMBDA c : c \in Digits)

\* s without the wrapper of its first highlighted run: the marker and the
\* brace that closes it
Unwrap(s) ==
  LET marker == <<"\\", "t", "e", "x", "t", "c", "o", "l", "o", "r", "{", "l", "i", "g", "h", "t", "g", "r", "a", "y", "}", "{">> (* "\\textcolor{lightgray}{" *)
      m == Least({p \in 1..Len(s) : StartsWithAt(s, p, marker)})
      c == Least({q \in (m + Len(marker))..Len(s) : s[q] = "}"})
  IN IF ~IsHighlighted(s) THEN s
     ELSE SubStr(s, 1, m - 1) \o SubStr(s, m + Len(marker), c - 1)
            \o SubStr(s, c + 1, Len(s))

\* C15: the result holds at most one highlighted run, and without the
\* wrapper of the run it has every digit of computed, in the same order;
\* for a computed in plain decimal notation it is computed itself.
C15_NoDigitLost ==
  shown # Pending =>
    /\ ~IsHighlighted(Unwrap(shown.value))
    /\ DigitsOf(Unwrap(shown.value)) = DigitsOf(strB)
    /\ ~parseScientificNotation(strB).ok => Unwrap(shown.value) = strB

\* s is a number in plain decimal notation: an optional minus sign,
\* digits, and optionally a decimal point and digits after it
IsPlainDecimal(s) ==
  LET a == IF At(s, 1) = "-" THEN 2 ELSE 1
      b == RunEnd(s, a, Digits)
  IN /\ b > a
     /\ \/ b = Len(s) + 1
        \/ At(s, b) = "." /\ RunEnd(s, b + 1, Digits) = Len(s) + 1

\* target with "0" appended when it ends in a bare decimal point
Normalized(target) ==
  IF target # <<>> /\ target[Len(target)] = "." THEN target \o <<"0">> ELSE target

\* The length of the plain part: the normalized target, the decimal point
\* if it comes next, and the zero digits that follow
PlainLength(target, computed) ==
  LET n == Len(Normalized(target))
      p == IF At(computed, n + 1) = "." THEN n + 1 ELSE n
  IN RunEnd(computed, p + 1, {"0"}) - 1

\* The prefix rule applies to a call that has returned
PrefixRuleApplies ==
  /\ shown # Pending
  /\ IsPlainDecimal(strA)
  /\ IsPlainDecimal(strB)
  /\ StartsWithAt(strB, 1, Normalized(strA))

\* The result is computed with its first n characters plain and the rest,
\* which is not empty, highlighted; or computed itself if n is its length
SplitsAt(n) ==
  IF n = Len(strB) THEN shown.value = strB
  ELSE shown.value
         = SubStr(strB, 1, n) \o <<"\\", "t", "e", "x", "t", "c", "o", "l", "o", "r", "{", "l", "i", "g", "h", "t", "g", "r", "a", "y", "}", "{">> (* "\\textcolor{lightgray}{" *)
             \o SubStr(strB, n + 1, Len(strB)) \o <<"}">>

\* C16, as stated: when the normalized target is a prefix of a computed in
\* plain decimal notation, the plain part is the prefix extended through
\* the zeros that follow, computed is returned unmodified if it is consumed
\* whole, and the highlighted run begins at a non-zero digit.
C16_RunBeginsAtDigit ==
  PrefixRuleApplies =>
    /\ SplitsAt(PlainLength(strA, strB))
    /\ PlainLength(strA, strB) < Len(strB)
         => strB[PlainLength(strA, strB) + 1] \in Digits \ {"0"}

\* C16, amended: the same, the highlighted run beginning at the first
\* character that is not a zero digit, which is a non-zero digit or the
\* decimal point of computed.
C16_PrefixThroughZeros ==
  PrefixRuleApplies =>
    /\ SplitsAt(PlainLength(strA, strB))
    /\ PlainLength(strA, strB) < Len(strB)
         => strB[PlainLength(strA, strB) + 1] \in (Digits \ {"0"}) \cup {"."}

\* ("3.1", "3.1004410") returned with "3.100" plain and "4410" highlighted.
C16_Witness ==
  /\ strA = <<"3", ".", "1">> (* "3.1" *)
  /\ strB = <<"3", ".", "1", "0", "0", "4", "4", "1", "0">> (* "3.1004410" *)
  /\ shown = Return(<<"3", ".", "1", "0", "0", "\\", "t", "e", "x", "t", "c", "o", "l", "o", "r", "{", "l", "i", "g", "h", "t", "g", "r", "a", "y", "}", "{", "4", "4", "1", "0", "}">> (* "3.100\\textcolor{lightgray}{4410}" *))

\* The length of the longest common prefix of a and b
CommonPrefixLength(a, b) ==
  Cardinality({k \in 1..Len(a) : k <= Len(b) /\ \A j \in 1..k : a[j] = b[j]})

\* C17: in the fallback case, computed a plain decimal number of which the
\* normalized target is no prefix, the result is the longest common prefix
\* of target and computed left plain and the rest of computed in one
\* highlighted run; the sign is compared like any other character.
C17_FallbackSplitsAtFirstDifference ==
  ( /\ shown # Pending
    /\ IsPlainDecimal(strB)
    /\ ~StartsWithAt(strB, 1, Normalized(strA)) )
    => SplitsAt(CommonPrefixLength(strA, strB))

\* ("0.23490942", "0.23606798") returned with "0.23" plain and "606798"
\* highlighted.
C17_Witness ==
  /\ strA = <<"0", ".", "2", "3", "4", "9", "0", "9", "4", "2">> (* "0.23490942" *)
  /\ strB = <<"0", ".", "2", "3", "6", "0", "6", "7", "9", "8">> (* "0.23606798" *)
  /\ shown = Return(<<"0", ".", "2", "3", "\\", "t", "e", "x", "t", "c", "o", "l", "o", "r", "{", "l", "i", "g", "h", "t", "g", "r", "a", "y", "}", "{", "6", "0", "6", "7", "9", "8", "}">> (* "0.23\\textcolor{lightgray}{606798}" *))

----------------------------------------------------------------------------
(* Calls one after another.  The three functions are synchronous and the   *)
(* program has one thread, so a call runs to its end before the next one   *)
(* starts.  The only state that outlives a call is the module scope: the   *)
(* lookup tables of the converter.  The regular expressions of the module  *)
(* scope carry no g or y flag, so their lastIndex is never read or set.    *)

\* Bound: the number of calls in a run.
MaxCalls == 3

\* The tables after a call that registers the tokens of its argument as
\* constants (mutant of TablesAfter)
TablesAfter_Registers(t, fn, arg) ==
  IF fn = "convertForthToLatex"
  THEN [t EXCEPT !.constants = @ \cup {Tokenize(arg)[k] : k \in 1..Len(Tokenize(arg))}]
  ELSE t

\* The tables after a call: no statement of the three functions assigns to
\* UNARY_OPS, BINARY_OPS or CONSTANTS or to one of their properties.
TablesAfter(t, fn, arg) == t

\* The keys on which tables t and the loaded tables differ
WrittenKeys(t) ==
  UNION {(t[k] \ LoadedTables[k]) \cup (LoadedTables[k] \ t[k]) :
           k \in {"unary", "binary", "constants"}}

\* The marker of a result computed with tables other than the loaded ones
OtherTables == Return(<<"[other tables]">>)

\* convertForthToLatex(text) with the tables in state t: the tests
\* `token in CONSTANTS`, `token in UNARY_OPS`, `token in BINARY_OPS` read
\* the tables as they are at the time of the call.
ConvertUnder(t, f, text) ==
  IF /\ WrittenKeys(t) # {}
     /\ \E k \in 1..Len(Tokenize(text)) : Tokenize(text)[k] \in WrittenKeys(t)
  THEN {Convert(f, text), OtherTables}
  ELSE {Convert(f, text)}

\* parseRIESOutput(text), text.split("\n") being ls
parseRIESOutput(f, ls) ==
  IF ls = <<<<>>>> THEN <<>>
  ELSE IF \A k \in 1..Len(ls) : ~IsEquationLine(ls[k])
  THEN IF \/ TextIncludes(ls, <<"Y", "o", "u", "r", " ", "t", "a", "r", "g", "e", "t", " ", "v", "a", "l", "u", "e", ":">> (* "Your target value:" *))
          \/ TextIncludes(ls, <<"m", "r", "o", "b", ".", "c", "o", "m", "/", "r", "i", "e", "s">> (* "mrob.com/ries" *))
       THEN <<NoEquationsFound(ls)>>
       ELSE <<>>
  ELSE RecordsOfLines(f, ls, Len(ls))

\* parseRIESOutput with the tables in state t: it reads them through
\* convertForthToLatex only.
ParseUnder(t, f, ls) ==
  IF /\ WrittenKeys(t) # {}
     /\ \E n \in 1..Len(ls) : \E k \in 1..Len(Split(ls[n], 1)) :
          Split(ls[n], 1)[k] \in WrittenKeys(t)
  THEN {Return(parseRIESOutput(f, ls)), OtherTables}
  ELSE {Return(parseRIESOutput(f, ls))}

\* The token strings the calls convert.
ConvertArgs ==
  {<<"x", " ", "1", " ", "+", " ", "7", " ", "*">> (* "x 1 + 7 *" *), <<"8", " ", "d", "u", "p", "*", " ", "5", " ", "+">> (* "8 dup* 5 +" *), <<"a", " ", "b", " ", "a", "t", "a", "n", "2">> (* "a b atan2" *), <<"p", "i">> (* "pi" *),
   <<"f", "o", "o">> (* "foo" *), <<"+">>}

\* The solver outputs the calls parse.
ParseArgs ==
  {<<<<"x", " ", "2", " ", "^", " ", "=", " ", "2", " ", "x", " ", "f", "o", "r", " ", "x", " ", "=", " ", "T", " ", "-", " ", "3", ".", "5">> (* "x 2 ^ = 2 x for x = T - 3.5" *), <<"x", " ", "=", " ", "8", " ", "d", "u", "p", "*", " ", "5", " ", "+", " ", "(", "'", "e", "x", "a", "c", "t", "'", " ", "m", "a", "t", "c", "h", ")">> (* "x = 8 dup* 5 + ('exact' match)" *)>>,
   <<<<"x", " ", "+", " ", "1", " ", "=", " ", "2", " ", "x", " ", "f", "o", "r", " ", "x", " ", "=", " ", "T", " ", "-", " ", "3", ".", "5">> (* "x + 1 = 2 x for x = T - 3.5" *)>>,
   <<<<"Y", "o", "u", "r", " ", "t", "a", "r", "g", "e", "t", " ", "v", "a", "l", "u", "e", ":", " ", "T", " ", "=", " ", "2", ".", "5">> (* "Your target value: T = 2.5" *)>>}

\* The pairs the calls compare, each decided on the characters alone.
HighlightArgs ==
  {pair \in {<<<<"0", ".", "2", "3", "4", "9", "0", "9", "4", "2">> (* "0.23490942" *), <<"0", ".", "2", "3", "6", "0", "6", "7", "9", "8">> (* "0.23606798" *)>>,
             <<<<"1", "2", "3", ".", "4", "5", "6">> (* "123.456" *), <<"1", "2", "3", ".", "4", "5", "6">> (* "123.456" *)>>,
             <<<<"3", ".", "1">> (* "3.1" *), <<"3", ".", "1", "0", "0", "4", "4", "1", "0">> (* "3.1004410" *)>>,
             <<<<"1", ".", "2", "e", "1", "0">> (* "1.2e10" *), <<"1", ".", "2", "3", "4", "5", "6", " ", "\\", "c", "d", "o", "t", " ", "1", "0", "^", "{", "1", "0", "}">> (* "1.23456 \\cdot 10^{10}" *)>>} :
     BranchOf(pair[1], pair[2]) # "values"}

InitCalls ==
  /\ file \in Files
  /\ family = "calls"
  /\ input = <<>>
  /\ tokens = <<>>
  /\ stack = <<>>
  /\ pc = "idle"
  /\ raised = NoError
  /\ outcome = Pending
  /\ NoRies
  /\ NoBrowser
  /\ NoWorker

\* One call fn(arg) that returns or throws result.
Call(fn, arg, result) ==
  /\ Len(calls) < MaxCalls
  /\ calls' = Append(calls, [fn |-> fn, arg |-> arg, result |-> result])
  /\ tables' = TablesAfter(tables, fn, arg)
  /\ UNCHANGED <<pvars, rvars, hvars, bvars, wvars>>

ConvertCall ==
  \E text \in ConvertArgs : \E result \in ConvertUnder(tables, file, text) :
    Call("convertForthToLatex", text, result)

ParseCall ==
  \E ls \in ParseArgs : \E result \in ParseUnder(tables, file, ls) :
    Call("parseRIESOutput", ls, result)

HighlightCall ==
  \E pair \in HighlightArgs : \E markup \in highlightDifference(pair[1], pair[2]) :
    Call("highlightDifference", pair, Return(markup))

NextCalls ==
  \/ ConvertCall
  \/ ParseCall
  \/ HighlightCall

SpecCalls == InitCalls /\ [][NextCalls]_vars

----------------------------------------------------------------------------
(* Properties of sequences of calls, checked under SpecCalls               *)

----------------------------------------------------------------------------
(* The App component and the session history of the browser.  A history    *)
(* entry holds the state object given to pushState and the parameter T of  *)
(* its URL.  Back and Forward move the cursor and fire popstate with the   *)
(* state of the entry reached.                                             *)

\* The revisions of App in the repository: src/src/App.jsx (its two copies
\* handle the history alike), and the two copies in src/unnamed/part_006.
AppFiles == {"App.jsx", "part_006:19", "part_006:97"}

\* Bound: the longest session history.
MaxEntries == 4

\* The values typed into the input field: empty, and two numbers.
InputValues == {<<>>, <<"0", ".", "1", "2", "3">> (* "0.123" *), <<"-", "1">> (* "-1" *)}

\* No state object, no parameter T
Absent == [has |-> FALSE, T |-> <<>>]

\* The state object {T: v}, the parameter T=v
Holding(v) == [has |-> TRUE, T |-> v]

\* window.history.pushState(state, '', url): the entries after the current
\* one are dropped
pushState(state, url) ==
  /\ entries' = SubSeq(entries, 1, cursor) \o <<[state |-> state, url |-> url]>>
  /\ cursor' = cursor + 1

\* value is truthy; in part_006 also value.trim() !== ''
IsGiven(value) ==
  IF file = "App.jsx" THEN value # <<>> ELSE Trim(value) # <<>>

\* The page is loaded with or without ?T= in its URL.
InitApp ==
  /\ file \in AppFiles
  /\ family = "app"
  /\ input = <<>>
  /\ tokens = <<>>
  /\ stack = <<>>
  /\ pc = "loaded"
  /\ raised = NoError
  /\ outcome = Pending
  /\ NoRies
  /\ \E url \in {Absent} \cup {Holding(v) : v \in InputValues \ {<<>>}} :
       entries = <<[state |-> Absent, url |-> url]>>
  /\ cursor = 1
  /\ inputValue = <<>>
  /\ event = [kind |-> "none", value |-> <<>>]
  /\ NoWorker

\* useEffect(..., []) on mount, the URL holding T
MountWithParam ==
  /\ pc = "loaded"
  /\ entries[cursor].url.has
  /\ pc' = "mounted"
  /\ inputValue' = entries[cursor].url.T
  /\ event' = [kind |-> "mount", value |-> inputValue']
  /\ UNCHANGED <<file, family, tokens, stack, raised, outcome, input, rvars,
                 hvars, cvars, entries, cursor, wvars>>

\* useEffect(..., []) on mount, no T in the URL: App.jsx and part_006:97
\* take a random value and push it
MountWithRandom ==
  /\ pc = "loaded"
  /\ ~entries[cursor].url.has
  /\ file # "part_006:19"
  /\ pc' = "mounted"
  /\ \E randomValue \in InputValues \ {<<>>} :
       /\ inputValue' = randomValue
       /\ pushState(Holding(randomValue), Holding(randomValue))
       /\ event' = [kind |-> "mount", value |-> randomValue]
  /\ UNCHANGED <<file, family, tokens, stack, raised, outcome, input, rvars,
                 hvars, cvars, wvars>>

\* useEffect(..., []) on mount, no T in the URL: part_006:19 does nothing
MountEmpty ==
  /\ pc = "loaded"
  /\ ~entries[cursor].url.has
  /\ file = "part_006:19"
  /\ pc' = "mounted"
  /\ event' = [kind |-> "mount", value |-> <<>>]
  /\ UNCHANGED <<file, family, tokens, stack, raised, outcome, input, rvars,
                 hvars, cvars, entries, cursor, inputValue, wvars>>

\* handleInputChange(value), a value given
ChangeInput ==
  /\ pc = "mounted"
  /\ Len(entries) < MaxEntries
  /\ \E value \in InputValues :
       /\ IsGiven(value)
       /\ inputValue' = value
       /\ pushState(Holding(value), Holding(value))
       /\ event' = [kind |-> "change", value |-> value]
  /\ UNCHANGED <<pvars, rvars, hvars, cvars, wvars>>

\* handleInputChange(value), the field cleared: App.jsx deletes T from the
\* URL and pushes {T: ''}, part_006 pushes nothing
ClearInput ==
  /\ pc = "mounted"
  /\ Len(entries) < MaxEntries
  /\ \E value \in InputValues :
       /\ ~IsGiven(value)
       /\ inputValue' = value
       /\ IF file = "App.jsx"
          THEN pushState(Holding(value), Absent)
          ELSE UNCHANGED <<entries, cursor>>
       /\ event' = [kind |-> "change", value |-> value]
  /\ UNCHANGED <<pvars, rvars, hvars, cvars, wvars>>

\* The popstate event of a navigation to entry k: handlePopState in
\* part_006; App.jsx registers no listener.
PopState(k) ==
  /\ cursor' = k
  /\ inputValue' = IF file # "App.jsx" /\ entries[k].state.has
                   THEN entries[k].state.T
                   ELSE inputValue
  /\ UNCHANGED <<pvars, rvars, hvars, cvars, entries, wvars>>

\* The Back button, inside the page
Back ==
  /\ pc = "mounted"
  /\ cursor > 1
  /\ PopState(cursor - 1)
  /\ event' = [kind |-> "back", value |-> <<>>]

\* The Forward button
Forward ==
  /\ pc = "mounted"
  /\ cursor < Len(entries)
  /\ PopState(cursor + 1)
  /\ event' = [kind |-> "forward", value |-> <<>>]

NextApp ==
  \/ MountWithParam
  \/ MountWithRandom
  \/ MountEmpty
  \/ ChangeInput
  \/ ClearInput
  \/ Back
  \/ Forward

SpecApp == InitApp /\ [][NextApp]_vars

----------------------------------------------------------------------------
(* Properties of the history sync, checked under SpecApp                   *)

\* C21: every input change pushes a history entry with state {T: value} and
\* URL parameter T=value, and after a Back or Forward navigation to an entry
\* of state {T: v} the input field shows v.
C21_HistorySync ==
  [][/\ event'.kind = "change" =>
          /\ cursor' = cursor + 1
          /\ entries'[cursor'] = [state |-> Holding(event'.value),
                                  url |-> Holding(event'.value)]
     /\ (event'.kind \in {"back", "forward"} /\ entries'[cursor'].state.has) =>
          inputValue' = entries'[cursor'].state.T]_vars

----------------------------------------------------------------------------
(* Properties of the nodes and of the rendering of powers, checked under   *)
(* Spec                                                                    *)

\* The flag the node should carry, by its own operator kind; the
\* multiplication is left open.
FlagAsClaimed(node) ==
  CASE node.type \in {"num", "var", "const"} ->
         ~node.requiresBracketsForExponentiation
    [] node.type = "func" ->
         node.requiresBracketsForExponentiation
           = (node.value \in {<<"n", "e", "g">> (* "neg" *), <<"e", "x", "p">> (* "exp" *)})
    [] node.type = "op" /\ node.value \in {<<"+">>, <<"-">>, <<"/">>, <<"^">>,
                                           <<"*", "*">> (* "**" *), <<"r", "o", "o", "t">> (* "root" *)} ->
         node.requiresBracketsForExponentiation
    [] node.type = "op" /\ node.value \in {<<"a", "t", "a", "n", "2">> (* "atan2" *), <<"l", "o", "g", "N">> (* "logN" *)} ->
         ~node.requiresBracketsForExponentiation
    [] OTHER -> TRUE

\* C22: every node built by the parser carries the flag of its operator
\* kind: set for + - / ^ ** root and for neg and exp, not set for literals,
\* variables, constants and the functions that bring their own delimiters.
C22_FlagByKind ==
  \A k \in 1..Len(stack) : FlagAsClaimed(stack[k])

\* The newest node is a power whose rendering succeeds.
PowerOnTop ==
  /\ stack # <<>>
  /\ Top.type = "op"
  /\ Top.value \in {<<"^">>, <<"*", "*">> (* "**" *)}
  /\ \A pp \in ParentPrecs : \A inF \in BOOLEAN :
       ~RenderIn(file, Top, pp, inF).thrown

\* Opening minus closing parentheses among the first k characters of s
Depth(s, k) ==
  Cardinality({j \in 1..k : s[j] = "("}) - Cardinality({j \in 1..k : s[j] = ")"})

\* The text begins with a parenthesized base: `(`, then its matching `)`
\* with `^{` right after it.
BaseParenthesized(text) ==
  /\ Len(text) > 0
  /\ text[1] = "("
  /\ \E c \in 2..Len(text) :
       /\ Depth(text, c) = 0
       /\ \A k \in 1..(c - 1) : Depth(text, k) > 0
       /\ StartsWithAt(text, c + 1, <<"^", "{">> (* "^{" *))

\* C23: a rendered power has its base in parentheses if and only if the
\* flag of the base node is set, under every parent precedence and inside or
\* outside a function argument.
C23_BaseParensIffFlag ==
  PowerOnTop =>
    \A pp \in ParentPrecs : \A inF \in BOOLEAN :
      BaseParenthesized(ToStr(RenderIn(file, Top, pp, inF).value))
        <=> Top.children[1].requiresBracketsForExponentiation

\* The node is one toLatex has a branch for, with an operator of the
\* tables and the number of children the branch reads.
WellFormed(node) ==
  CASE node.type \in {"num", "var", "const"} -> node.children = <<>>
    [] node.type = "func" -> node.value \in UnaryNames /\ Len(node.children) = 1
    [] node.type = "op" -> node.value \in BinaryNames /\ Len(node.children) = 2
    [] OTHER -> FALSE

\* C24: every node the parser builds is well formed, and rendering it
\* returns a markup string: it throws nothing and returns no other value.
C24_RenderingTotal ==
  \A k \in 1..Len(stack) :
    /\ WellFormed(stack[k])
    /\ \A pp \in ParentPrecs : \A inF \in BOOLEAN :
         LET r == RenderIn(file, stack[k], pp, inF)
         IN ~r.thrown /\ ~IsNative(r.value)

----------------------------------------------------------------------------
(* Properties of the shape of the trees, checked under Spec                *)

RECURSIVE PostOrder(_)
\* The nodes of a tree, children before their parent, left before right
PostOrder(node) ==
  IF node.children = <<>> THEN <<node>>
  ELSE IF Len(node.children) = 1
       THEN PostOrder(node.children[1]) \o <<node>>
       ELSE PostOrder(node.children[1]) \o PostOrder(node.children[2]) \o <<node>>

RECURSIVE StackPostOrder(_, _)
\* The nodes of the first n trees of the stack, bottom of the stack first
StackPostOrder(st, n) ==
  IF n = 0 THEN <<>> ELSE StackPostOrder(st, n - 1) \o PostOrder(st[n])

\* The node stands for token t: a leaf for an operand, an internal node with
\* one child for a unary and two for a binary operator.
NodeOfToken(node, t) ==
  CASE node.type \in {"num", "var"} -> node.children = <<>> /\ node.value = t
    [] node.type = "const" ->
         node.children = <<>> /\ node.value = CONSTANTS_TABLE(t)
    [] node.type = "func" -> Len(node.children) = 1 /\ node.value = t
    [] node.type = "op" -> Len(node.children) = 2 /\ node.value = t
    [] OTHER -> FALSE

\* The trees of the stack, read children first and left to right, are the
\* tokens in input order, one node for each token.
TreesOfTokens(st, toks) ==
  LET nodes == StackPostOrder(st, Len(st))
  IN /\ Len(nodes) = Len(toks)
     /\ \A k \in 1..Len(toks) : NodeOfToken(nodes[k], toks[k])

\* The change of the stack depth by the kind of the node pushed
DepthChange(type) ==
  CASE type \in {"num", "var", "const"} -> 1
    [] type = "func" -> 0
    [] type = "op" -> -1

\* \log_{R}(L) for a logN node with the renderings L and R of its operands
LogNText(node) ==
  <<"\\", "l", "o", "g", "_", "{">> (* "\\log_{" *) \o ToStr(RenderIn(file, node.children[2], 3, FALSE).value)
    \o <<"}", "(">> (* "}(" *) \o ToStr(RenderIn(file, node.children[1], 3, FALSE).value) \o <<")">>

----------------------------------------------------------------------------
(* Properties of the parentheses around a base, checked under Spec         *)

\* The position of the `(` that the `)` at position c of s closes, 0 if none
MatchingOpen(s, c) ==
  LET opens == {o \in 1..(c - 1) :
                  /\ s[o] = "("
                  /\ Depth(s, c) = Depth(s, o) - 1
                  /\ \A k \in o..(c - 1) : Depth(s, k) >= Depth(s, o)}
  IN IF opens = {} THEN 0 ELSE Greatest(opens)

\* A base in two directly nested pairs: `((`, the base, `))^{`
DoublyWrapped(text) ==
  \E c \in 2..Len(text) :
    /\ text[c] = ")"
    /\ text[c - 1] = ")"
    /\ StartsWithAt(text, c + 1, <<"^", "{">> (* "^{" *))
    /\ MatchingOpen(text, c) > 0
    /\ MatchingOpen(text, c - 1) = MatchingOpen(text, c) + 1

\* The base of the power on top, rendered as toLatex renders a base, is the
\* text it has at top level in a pair of parentheses of its own.
BaseWrapsItself(inF) ==
  LET base == Top.children[1]
  IN /\ base.type = "op"
     /\ ~RenderIn(file, base, 0, inF).thrown
     /\ RenderIn(file, base, 3, inF)
          = Return(Parens(ToStr(RenderIn(file, base, 0, inF).value)))

\* C26: no rendering holds the base of a power in two directly nested pairs
\* of parentheses; the node rendered as the base of ^ or ** gets no
\* parentheses of its own from the precedence rule, and at most one pair
\* from the power.
C26_NoDoubleParentheses ==
  /\ \A k \in 1..Len(stack) : \A pp \in ParentPrecs : \A inF \in BOOLEAN :
       LET r == RenderIn(file, stack[k], pp, inF)
       IN (~r.thrown /\ ~IsNative(r.value)) => ~DoublyWrapped(r.value)
  /\ PowerOnTop => \A inF \in BOOLEAN : ~BaseWrapsItself(inF)

\* The newest node is a root whose rendering succeeds.
RootOnTop ==
  /\ stack # <<>>
  /\ Top.type = "op"
  /\ Top.value = <<"r", "o", "o", "t">> (* "root" *)
  /\ \A inF \in BOOLEAN : ~RenderIn(file, Top, 0, inF).thrown

\* C27: a rendered root has its base in parentheses when the flag of the
\* base node is set (a sum, a difference, a fraction, a power, a root),
\* inside and outside a function argument.
C27_RootBaseParenthesized ==
  (RootOnTop /\ Top.children[1].requiresBracketsForExponentiation) =>
    \A inF \in BOOLEAN :
      BaseParenthesized(ToStr(RenderIn(file, Top, 0, inF).value))

----------------------------------------------------------------------------
(* Properties of the line filter of parseRIESOutput, checked under         *)
(* SpecRies                                                                *)

\* C28: every line of the text that matches the offset-form or the
\* exact-match regular expression has a record in the result; the
\* substring filter suppresses no line the regular expressions accept.
C28_GrammarLinesReported ==
  where = "returned" =>
    \A i \in 1..Len(lines) :
      (EQUATION_REGEX(lines[i]).ok \/ EXACT_MATCH_REGEX(lines[i]).ok)
        => \E k \in 1..Len(origin) : origin[k] = i

----------------------------------------------------------------------------
(* src/workers/riesWorkerClient.js (src/unnamed/part_010) and              *)
(* src/src/workers/ries.worker.js: the client on the main thread and the   *)
(* worker it talks to.  Each handler runs to completion on its thread; a   *)
(* handler of the worker that awaits createRIESModule gives way to the     *)
(* next message and goes on when the promise settles.  callMain is         *)
(* synchronous, so the heartbeat interval and the timeout timer of the     *)
(* worker, set before it and cleared after it, never fire.                 *)

\* Bound: the requests sent, calculations and restarts together.
MaxRequests == 3

\* Bound: the `error` listeners on window, one more for every Worker created.
MaxListeners == 4

\* What moduleInstance.callMain or createRIESModule ends in
Outcomes == {"result", "memory", "error"}

\* The Map without the key id
Delete(map, id) == [k \in DOMAIN map \ {id} |-> map[k]]

\* The sequence without its k-th element
Without(seq, k) == SubSeq(seq, 1, k - 1) \o SubSeq(seq, k + 1, Len(seq))

\* The part of the client state retryRequest works on
Client == [callbacks |-> callbacks, timeouts |-> timeouts, promises |-> promises]

\* A retryRequest without the hasRetried test
retryRequest_Always(c, id, cb) ==
  [c EXCEPT !.callbacks = (id :> [cb EXCEPT !.hasRetried = TRUE]) @@ @,
            !.timeouts = Append(@, id)]

\* retryRequest(id, cb, delay, isCritical): mark the entry and set the
\* timeout that posts the retry, or reject and delete the entry
retryRequest(c, id, cb) ==
  IF ~cb.hasRetried
  THEN [c EXCEPT !.callbacks = (id :> [cb EXCEPT !.hasRetried = TRUE]) @@ @,
                 !.timeouts = Append(@, id)]
  ELSE [c EXCEPT !.promises[id] = IF @ = "pending" THEN "rejected" ELSE @,
                 !.callbacks = Delete(@, id)]

RECURSIVE RetryEach(_, _, _)
\* pendingCallbacks.forEach over the keys ids, in the order of the Map
RetryEach(c, pending, ids) ==
  IF ids = {} THEN c
  ELSE RetryEach(retryRequest(c, Least(ids), pending[Least(ids)]), pending,
                 ids \ {Least(ids)})

\* processPendingCallbacks(pendingCallbacks, isCritical)
processPendingCallbacks(c, pending) == RetryEach(c, pending, DOMAIN pending)

RECURSIVE Dispatch(_, _)
\* n listeners of one `error` event, each with its own copy of callbacks
Dispatch(c, n) ==
  IF n = 0 THEN c ELSE Dispatch(processPendingCallbacks(c, c.callbacks), n - 1)

\* The client state after the handler
SetClient(c) ==
  /\ callbacks' = c.callbacks
  /\ timeouts' = c.timeouts
  /\ promises' = c.promises

\* resetWorker(), n times: the watchdog is cleared, the Worker terminated
\* with its messages in both directions, and a new Worker gets its handlers.
resetWorker(n) ==
  /\ heartbeatWatchdog' = FALSE
  /\ worker' = TRUE
  /\ errorListeners' = errorListeners + n
  /\ inbox' = <<>>
  /\ replies' = <<>>
  /\ riesModuleInstance' = 0
  /\ creating' = <<>>
  /\ creations' = <<>>

\* initWorker(), then callbacks.set(id, ...) and worker.postMessage(...)
Request(kind, command) ==
  /\ IF worker
     THEN UNCHANGED <<worker, errorListeners, heartbeatWatchdog>>
     ELSE /\ worker' = TRUE
          /\ errorListeners' = errorListeners + 1
          /\ heartbeatWatchdog' = TRUE
  /\ callbacks' = (msgId :> [hasRetried |-> FALSE, kind |-> kind]) @@ callbacks
  /\ promises' = (msgId :> "pending") @@ promises
  /\ posts' = (msgId :> 1) @@ posts
  /\ inbox' = Append(inbox, [id |-> msgId, retry |-> FALSE, command |-> command])
  /\ msgId' = msgId + 1
  /\ failed' = NoFailure
  /\ UNCHANGED <<timeouts, replies, riesModuleInstance, creating, creations,
                 pvars, rvars, hvars, cvars, bvars>>

sendRiesRequest ==
  /\ msgId < MaxRequests
  /\ Request("calculation", "none")

restartRiesModule ==
  /\ msgId < MaxRequests
  /\ Request("restart", "restart")

\* worker.onmessage for a message of the given kind, its id in callbacks
Delivered(kind) ==
  /\ replies # <<>>
  /\ Head(replies).kind = kind
  /\ Head(replies).id \in DOMAIN callbacks

\* worker.onmessage, memoryError: resetWorker(), then retryRequest(id, cb)
OnMemoryError ==
  /\ Delivered("memoryError")
  /\ errorListeners < MaxListeners
  /\ resetWorker(1)
  /\ SetClient(retryRequest(Client, Head(replies).id, callbacks[Head(replies).id]))
  /\ failed' = [by |-> "onmessage", ids |-> {Head(replies).id}]
  /\ UNCHANGED <<msgId, posts, pvars, rvars, hvars, cvars, bvars>>

\* worker.onmessage, error or result: the promise is settled, the entry deleted
Settle(state) ==
  /\ replies' = Tail(replies)
  /\ promises' = [promises EXCEPT ![Head(replies).id] = state]
  /\ callbacks' = Delete(callbacks, Head(replies).id)
  /\ failed' = NoFailure
  /\ UNCHANGED <<worker, msgId, heartbeatWatchdog, errorListeners, timeouts, posts,
                 inbox, riesModuleInstance, creating, creations,
                 pvars, rvars, hvars, cvars, bvars>>

OnError ==
  /\ Delivered("error")
  /\ Settle("rejected")

OnResult ==
  /\ Delivered("result")
  /\ Settle("resolved")

\* worker.onmessage for an id that is not in callbacks: `if (!cb) return`
OnUnknownId ==
  /\ replies # <<>>
  /\ Head(replies).id \notin DOMAIN callbacks
  /\ replies' = Tail(replies)
  /\ failed' = NoFailure
  /\ UNCHANGED <<worker, callbacks, msgId, heartbeatWatchdog, errorListeners, timeouts,
                 promises, posts, inbox, riesModuleInstance, creating, creations,
                 pvars, rvars, hvars, cvars, bvars>>

\* A copy of callbacks, resetWorker(), processPendingCallbacks(copy)
ResetAndRetry(by, n) ==
  /\ resetWorker(n)
  /\ SetClient(Dispatch(Client, n))
  /\ failed' = [by |-> by, ids |-> DOMAIN callbacks]
  /\ UNCHANGED <<msgId, posts, pvars, rvars, hvars, cvars, bvars>>

\* worker.onerror
OnWorkerError ==
  /\ worker
  /\ errorListeners < MaxListeners
  /\ ResetAndRetry("onerror", 1)

\* The interval of startHeartbeatWatchdog finds the heartbeat overdue or
\* the memory readings concerning.
WatchdogReset ==
  /\ heartbeatWatchdog
  /\ errorListeners < MaxListeners
  /\ ResetAndRetry("watchdog", 1)

\* An `error` event on window that the listeners take for a memory error:
\* every listener registered so far handles it.
OnGlobalError ==
  /\ errorListeners > 0
  /\ 2 * errorListeners <= MaxListeners
  /\ ResetAndRetry("error event", errorListeners)

\* The setTimeout callback of retryRequest: worker.postMessage({..., retry: true})
RetryTimeout ==
  \E k \in 1..Len(timeouts) :
    /\ timeouts' = Without(timeouts, k)
    /\ posts' = [posts EXCEPT ![timeouts[k]] = @ + 1]
    /\ inbox' = Append(inbox, [id |-> timeouts[k], retry |-> TRUE, command |-> "none"])
    /\ failed' = NoFailure
    /\ UNCHANGED <<worker, callbacks, msgId, heartbeatWatchdog, errorListeners,
                   promises, replies, riesModuleInstance, creating, creations,
                   pvars, rvars, hvars, cvars, bvars>>

\* initRiesModule(force) is called with force for a restart and for a retry.
Forced(message) == message.command = "restart" \/ message.retry

\* What the handler of the worker posts at its end
Reply(message, ending) ==
  [id |-> message.id,
   kind |-> CASE message.command = "restart" ->
                   IF ending = "result" THEN "result" ELSE "error"
              [] ending = "memory" ->
                   IF message.retry THEN "error" ELSE "memoryError"
              [] OTHER -> ending]

\* onmessage of the worker, the cached instance reused: callMain and the reply
ReuseModule ==
  /\ inbox # <<>>
  /\ riesModuleInstance # 0
  /\ ~Forced(Head(inbox))
  /\ inbox' = Tail(inbox)
  /\ \E ending \in Outcomes : replies' = Append(replies, Reply(Head(inbox), ending))
  /\ failed' = NoFailure
  /\ UNCHANGED <<worker, callbacks, msgId, heartbeatWatchdog, errorListeners, timeouts,
                 promises, posts, riesModuleInstance, creating, creations,
                 pvars, rvars, hvars, cvars, bvars>>

\* onmessage of the worker up to `await createRIESModule(...)`: the cache is
\* empty or force is set, an old instance is dropped and a new one asked for
CreateModule ==
  /\ inbox # <<>>
  /\ riesModuleInstance = 0 \/ Forced(Head(inbox))
  /\ inbox' = Tail(inbox)
  /\ riesModuleInstance' = 0
  /\ creations' = Append(creations, Forced(Head(inbox)))
  /\ creating' = Append(creating, [message |-> Head(inbox), instance |-> Len(creations) + 1])
  /\ failed' = NoFailure
  /\ UNCHANGED <<worker, callbacks, msgId, heartbeatWatchdog, errorListeners, timeouts,
                 promises, posts, replies, pvars, rvars, hvars, cvars, bvars>>

\* createRIESModule resolves: the instance is cached, and the handler goes
\* on to callMain, or to its reply for a restart
ModuleCreated ==
  \E k \in 1..Len(creating) :
    /\ creating' = Without(creating, k)
    /\ riesModuleInstance' = creating[k].instance
    /\ \E ending \in Outcomes :
         /\ creating[k].message.command = "restart" => ending = "result"
         /\ replies' = Append(replies, Reply(creating[k].message, ending))
    /\ failed' = NoFailure
    /\ UNCHANGED <<worker, callbacks, msgId, heartbeatWatchdog, errorListeners, timeouts,
                   promises, posts, inbox, creations, pvars, rvars, hvars, cvars, bvars>>

\* createRIESModule rejects: initRiesModule throws into the catch of the handler
ModuleFailed ==
  \E k \in 1..Len(creating) :
    /\ creating' = Without(creating, k)
    /\ \E ending \in Outcomes \ {"result"} :
         replies' = Append(replies, Reply(creating[k].message, ending))
    /\ failed' = NoFailure
    /\ UNCHANGED <<worker, callbacks, msgId, heartbeatWatchdog, errorListeners, timeouts,
                   promises, posts, inbox, riesModuleInstance, creations,
                   pvars, rvars, hvars, cvars, bvars>>

\* The client module is loaded, no request has been sent.
InitWorker ==
  /\ file = "riesWorkerClient.js"
  /\ family = "worker"
  /\ input = <<>>
  /\ tokens = <<>>
  /\ stack = <<>>
  /\ pc = "loaded"
  /\ raised = NoError
  /\ outcome = Pending
  /\ NoRies
  /\ NoBrowser
  /\ NoWorker

NextWorker ==
  \/ sendRiesRequest
  \/ restartRiesModule
  \/ OnMemoryError
  \/ OnError
  \/ OnResult
  \/ OnUnknownId
  \/ OnWorkerError
  \/ WatchdogReset
  \/ OnGlobalError
  \/ RetryTimeout
  \/ ReuseModule
  \/ CreateModule
  \/ ModuleCreated
  \/ ModuleFailed

SpecWorker == InitWorker /\ [][NextWorker]_vars

----------------------------------------------------------------------------
(* Properties of the worker client and of the worker, checked under        *)
(* SpecWorker                                                              *)

\* The number of elements of seq that are x
Count(seq, x) == Cardinality({k \in 1..Len(seq) : seq[k] = x})

\* C29: a request is posted to a worker at most twice, the original post
\* and one retry, the retry still to be posted counted in; and a failure
\* of a request that was retried already rejects its promise and deletes
\* its entry of callbacks, without another retry.
C29_AtMostOneRetry ==
  [][/\ \A id \in DOMAIN posts' : posts'[id] + Count(timeouts', id) <= 2
     /\ \A id \in failed'.ids \cap DOMAIN callbacks :
          callbacks[id].hasRetried =>
            /\ id \notin DOMAIN callbacks'
            /\ promises'[id] = "rejected"
            /\ posts'[id] = posts[id]
            /\ Count(timeouts', id) <= Count(timeouts, id)]_vars

\* A request was retried after a memory error, failed again, and was
\* rejected after two posts.
C29_Witness ==
  /\ 0 \in DOMAIN posts
  /\ posts[0] = 2
  /\ 0 \in failed.ids
  /\ promises[0] = "rejected"
  /\ 0 \notin DOMAIN callbacks

\* The createRIESModule calls of the worker that were not forced
Unforced(made) == {k \in 1..Len(made) : ~made[k]}

\* C30: the worker calls createRIESModule at most once without force, a
\* restart or a retry being the only causes of another call, and a request
\* that finds an instance cached and is not forced uses it and creates none.
C30_ModuleCreatedOnce ==
  [][/\ Cardinality(Unforced(creations')) <= 1
     /\ ( /\ inbox # <<>>
          /\ inbox' = Tail(inbox)
          /\ errorListeners' = errorListeners
          /\ riesModuleInstance # 0
          /\ ~Forced(Head(inbox)) )
        => /\ creations' = creations
           /\ riesModuleInstance' = riesModuleInstance]_vars

=============================================================================
